---- MODULE Spec2Model ----
(***************************************************************************)
(* NormaDB: the DDL parser (SQLParser), the dump extractor (DumpParser),   *)
(* the canonical table builder, the 1NF rules, the conflict resolver and   *)
(* the compliance calculator, modelled from the TypeScript sources.        *)
(*                                                                         *)
(* A JavaScript string is a sequence of one-character strings, so that     *)
(* trim, split, toUpperCase, startsWith, includes and the regular          *)
(* expressions of the sources are computed character by character.         *)
(***************************************************************************)
EXTENDS Integers, Sequences, FiniteSets, TLC

(***************************************************************************)
(* String primitives (JavaScript String.prototype).                        *)
(***************************************************************************)
LowerLetters == <<"a","b","c","d","e","f","g","h","i","j","k","l","m",
                  "n","o","p","q","r","s","t","u","v","w","x","y","z">>
UpperLetters == <<"A","B","C","D","E","F","G","H","I","J","K","L","M",
                  "N","O","P","Q","R","S","T","U","V","W","X","Y","Z">>
DigitChars == {"0","1","2","3","4","5","6","7","8","9"}
LetterIdx == DOMAIN LowerLetters

LowerSet == {LowerLetters[i] : i \in LetterIdx}
UpperSet == {UpperLetters[i] : i \in LetterIdx}
\* the upper-case letter of each lower-case letter, and the converse
UpperOf == [c \in LowerSet |-> UpperLetters[CHOOSE i \in LetterIdx : LowerLetters[i] = c]]
LowerOf == [c \in UpperSet |-> LowerLetters[CHOOSE i \in LetterIdx : UpperLetters[i] = c]]

IsLower(c) == c \in LowerSet
IsUpper(c) == c \in UpperSet
IsLetter(c) == IsLower(c) \/ IsUpper(c)
\* \s of the regular expressions, and the characters trim() removes
IsSpace(c) == c \in {" ", "\n", "\t"}
\* \w of the regular expressions
IsWordChar(c) == IsLetter(c) \/ c \in DigitChars \/ c = "_"
\* [a-zA-Z_] and [a-zA-Z0-9_] of the dump parser's expressions
IsIdentStart(c) == IsLetter(c) \/ c = "_"
IsQuoteChar(c) == c \in {"\"", "`", "'"}

toUpperChar(c) == IF IsLower(c) THEN UpperOf[c] ELSE c
toLowerChar(c) == IF IsUpper(c) THEN LowerOf[c] ELSE c
toUpperCase(s) == [i \in 1..Len(s) |-> toUpperChar(s[i])]
toLowerCase(s) == [i \in 1..Len(s) |-> toLowerChar(s[i])]

\* s has p at position i
hasAt(s, i, p) == i >= 1 /\ i + Len(p) - 1 <= Len(s) /\ \A k \in 1..Len(p) : s[i + k - 1] = p[k]
startsWith(s, p) == hasAt(s, 1, p)
includes(s, p) == \E i \in 1..(Len(s) - Len(p) + 1) : hasAt(s, i, p)
\* case-insensitive literal of an /i expression at position i
hasAtCI(s, i, p) == i >= 1 /\ i + Len(p) - 1 <= Len(s)
                    /\ \A k \in 1..Len(p) : toUpperChar(s[i + k - 1]) = toUpperChar(p[k])

trim(s) ==
  IF \A i \in 1..Len(s) : IsSpace(s[i]) THEN <<>>
  ELSE LET a == CHOOSE i \in 1..Len(s) :
                  ~IsSpace(s[i]) /\ \A j \in 1..(i - 1) : IsSpace(s[j])
           b == CHOOSE i \in 1..Len(s) :
                  ~IsSpace(s[i]) /\ \A j \in (i + 1)..Len(s) : IsSpace(s[j])
       IN SubSeq(s, a, b)

\* the number of occurrences of character c: (s.match(/c/g) || []).length
countChar(s, c) == Cardinality({i \in 1..Len(s) : s[i] = c})

\* s.replace(/["`']/g, '')
notQuoteChar(c) == ~IsQuoteChar(c)
stripQuotes(s) == SelectSeq(s, notQuoteChar)

\* the end of the run of spaces that starts at i (i itself when there is none)
RECURSIVE skipSpaces(_, _)
skipSpaces(s, i) ==
  IF i <= Len(s) /\ IsSpace(s[i]) THEN skipSpaces(s, i + 1) ELSE i

\* the end (exclusive) of the longest run of \w characters that starts at i
RECURSIVE skipWord(_, _)
skipWord(s, i) ==
  IF i <= Len(s) /\ IsWordChar(s[i]) THEN skipWord(s, i + 1) ELSE i

\* s.split(sep) for a one-character separator
RECURSIVE splitChar(_, _)
splitChar(s, sep) ==
  IF \A i \in 1..Len(s) : s[i] # sep THEN <<s>>
  ELSE LET k == CHOOSE i \in 1..Len(s) : s[i] = sep /\ \A j \in 1..(i - 1) : s[j] # sep
       IN <<SubSeq(s, 1, k - 1)>> \o splitChar(SubSeq(s, k + 1, Len(s)), sep)

\* s.split(/\s+/) of a trimmed string: its maximal runs of non-space characters
\* (the empty string splits into one empty part)
RECURSIVE splitSpaces(_)
splitSpaces(s) ==
  IF \A i \in 1..Len(s) : ~IsSpace(s[i]) THEN <<s>>
  ELSE LET k == CHOOSE i \in 1..Len(s) : IsSpace(s[i]) /\ \A j \in 1..(i - 1) : ~IsSpace(s[j])
       IN <<SubSeq(s, 1, k - 1)>> \o splitSpaces(SubSeq(s, skipSpaces(s, k), Len(s)))

\* parts.join(sep)
RECURSIVE join(_, _)
join(parts, sep) ==
  IF parts = <<>> THEN <<>>
  ELSE IF Len(parts) = 1 THEN parts[1]
       ELSE parts[1] \o sep \o join(Tail(parts), sep)

(***************************************************************************)
(* Literals of the sources, as character sequences.                        *)
(***************************************************************************)
kwCREATE == <<"C","R","E","A","T","E">>
kwTABLE == <<"T","A","B","L","E">>
kwIF == <<"I","F">>
kwNOT == <<"N","O","T">>
kwEXISTS == <<"E","X","I","S","T","S">>
kwPRIMARY == <<"P","R","I","M","A","R","Y">>
kwKEY == <<"K","E","Y">>
kwFOREIGN == <<"F","O","R","E","I","G","N">>
kwREFERENCES == <<"R","E","F","E","R","E","N","C","E","S">>
kwUNIQUE == <<"U","N","I","Q","U","E">>
kwCONSTRAINT == <<"C","O","N","S","T","R","A","I","N","T">>
strCreateTable == <<"C","R","E","A","T","E"," ","T","A","B","L","E">>
strCreateTableIfNotExists == <<"C","R","E","A","T","E"," ","T","A","B","L","E"," ","I","F"," ","N","O","T"," ","E","X","I","S","T","S">>
strPrimaryKey == <<"P","R","I","M","A","R","Y"," ","K","E","Y">>
strForeignKey == <<"F","O","R","E","I","G","N"," ","K","E","Y">>
strNotNull == <<"N","O","T"," ","N","U","L","L">>
strPublic == <<"p","u","b","l","i","c">>
strDashDash == <<"-","-">>
strSlashStar == <<"/","*">>
strPGDMP == <<"P","G","D","M","P">>

(***************************************************************************)
(* SQLParser (src/backend/src/parser/sqlParser.ts).                        *)
(* An optional value (T | null, T | undefined) is a sequence of length 0   *)
(* or 1.  Record<string, T> is the sequence of its values in insertion     *)
(* order: assigning an existing key replaces the value in place.           *)
(***************************************************************************)
\* the loop iteration without the parenLevel === 0 test of line 47
scanStepAnyDepth(st, c, sep) ==
  LET keep == [st EXCEPT !.cur = @ \o <<c>>]
  IN IF ~st.inQuotes /\ c \in {"'", "\""}
     THEN [keep EXCEPT !.inQuotes = TRUE, !.quoteChar = c]
     ELSE IF st.inQuotes /\ c = st.quoteChar
     THEN [keep EXCEPT !.inQuotes = FALSE, !.quoteChar = ""]
     ELSE IF ~st.inQuotes /\ c = "("
     THEN [keep EXCEPT !.parenLevel = @ + 1]
     ELSE IF ~st.inQuotes /\ c = ")"
     THEN [keep EXCEPT !.parenLevel = @ - 1]
     ELSE IF ~st.inQuotes /\ c = sep
     THEN [st EXCEPT !.out = Append(@, trim(st.cur)), !.cur = <<>>]
     ELSE keep

\* one iteration of the loop shared by splitStatements and
\* splitColumnDefinitions, on character c:
\* st = [out, cur, inQuotes, quoteChar, parenLevel]
scanStep(st, c, sep) ==
  LET keep == [st EXCEPT !.cur = @ \o <<c>>]
  IN IF ~st.inQuotes /\ c \in {"'", "\""}
     THEN [keep EXCEPT !.inQuotes = TRUE, !.quoteChar = c]
     ELSE IF st.inQuotes /\ c = st.quoteChar
     THEN [keep EXCEPT !.inQuotes = FALSE, !.quoteChar = ""]
     ELSE IF ~st.inQuotes /\ c = "("
     THEN [keep EXCEPT !.parenLevel = @ + 1]
     ELSE IF ~st.inQuotes /\ c = ")"
     THEN [keep EXCEPT !.parenLevel = @ - 1]
     ELSE IF ~st.inQuotes /\ c = sep /\ st.parenLevel = 0
     THEN [st EXCEPT !.out = Append(@, trim(st.cur)), !.cur = <<>>]
     ELSE keep

\* the loop over s[lo..hi] from state st (the range is halved rather than
\* walked, which computes the same left-to-right fold)
RECURSIVE scanRange(_, _, _, _, _)
scanRange(s, lo, hi, sep, st) ==
  IF lo > hi THEN st
  ELSE IF lo = hi THEN scanStep(st, s[lo], sep)
  ELSE LET mid == (lo + hi) \div 2
           left == scanRange(s, lo, mid, sep, st)
       IN \* the test evaluates the left half before the right half starts
          IF left.inQuotes \in BOOLEAN THEN scanRange(s, mid + 1, hi, sep, left) ELSE left

\* the loop, then the push of the last non-empty piece
scanSplit(s, sep, st0) ==
  LET st == scanRange(s, 1, Len(s), sep, st0)
  IN IF trim(st.cur) # <<>> THEN Append(st.out, trim(st.cur)) ELSE st.out

scanInit == [out |-> <<>>, cur |-> <<>>, inQuotes |-> FALSE, quoteChar |-> "", parenLevel |-> 0]

splitStatements(sql) == scanSplit(sql, ";", scanInit)

splitColumnDefinitions(content) == scanSplit(content, ",", scanInit)

\* ["`']?(\w+) at position q: the captured name, or <<>>
wordAt(s, q) ==
  LET q1 == IF q <= Len(s) /\ IsQuoteChar(s[q]) THEN q + 1 ELSE q
      e  == skipWord(s, q1)
  IN IF e > q1 THEN <<SubSeq(s, q1, e - 1)>> ELSE <<>>

\* kw\s+ at position q (case-insensitive): the position after the spaces, or 0
kwSpacesAt(s, q, kw) ==
  IF hasAtCI(s, q, kw) /\ q + Len(kw) <= Len(s) /\ IsSpace(s[q + Len(kw)])
  THEN skipSpaces(s, q + Len(kw)) ELSE 0

\* CREATE\s+TABLE\s+ at position p: the position after it, or 0
createTableAt(s, p) ==
  LET q1 == kwSpacesAt(s, p, kwCREATE)
  IN IF q1 = 0 THEN 0 ELSE kwSpacesAt(s, q1, kwTABLE)

\* (?:IF\s+NOT\s+EXISTS\s+) at position q: the position after it, or 0
ifNotExistsAt(s, q) ==
  LET q1 == kwSpacesAt(s, q, kwIF)
      q2 == IF q1 = 0 THEN 0 ELSE kwSpacesAt(s, q1, kwNOT)
  IN IF q2 = 0 THEN 0 ELSE kwSpacesAt(s, q2, kwEXISTS)

\* /CREATE\s+TABLE\s+(?:IF\s+NOT\s+EXISTS\s+)?(?:["`']?(\w+)["`']?)/i at position p
tableNameAt(s, p) ==
  LET q == createTableAt(s, p)
  IN IF q = 0 THEN <<>>
     ELSE LET g == ifNotExistsAt(s, q)
          IN IF g # 0 /\ wordAt(s, g) # <<>> THEN wordAt(s, g) ELSE wordAt(s, q)

\* statement.match(...) of line 65: the leftmost match's group 1, or <<>>
tableNameMatch(s) ==
  IF \A p \in 1..Len(s) : tableNameAt(s, p) = <<>> THEN <<>>
  ELSE tableNameAt(s, CHOOSE p \in 1..Len(s) :
         tableNameAt(s, p) # <<>> /\ \A r \in 1..(p - 1) : tableNameAt(s, r) = <<>>)

\* statement.match(/\((.*)\)/s): from the first "(" to the last ")", or <<>>
columnsMatch(s) ==
  IF \A i \in 1..Len(s) : s[i] # "(" THEN <<>>
  ELSE LET a == CHOOSE i \in 1..Len(s) : s[i] = "(" /\ \A j \in 1..(i - 1) : s[j] # "("
       IN IF \A i \in (a + 1)..Len(s) : s[i] # ")" THEN <<>>
          ELSE LET b == CHOOSE i \in (a + 1)..Len(s) :
                          s[i] = ")" /\ \A j \in (i + 1)..Len(s) : s[j] # ")"
               IN <<SubSeq(s, a + 1, b - 1)>>

\* \(([^)]+)\) at position q: <<the group, the position after ")">>, or <<>>
parenGroupAt(s, q) ==
  IF ~(q <= Len(s) /\ s[q] = "(") THEN <<>>
  ELSE IF \A i \in (q + 1)..Len(s) : s[i] # ")" THEN <<>>
  ELSE LET e == CHOOSE i \in (q + 1)..Len(s) : s[i] = ")" /\ \A j \in (q + 1)..(i - 1) : s[j] # ")"
       IN IF e = q + 1 THEN <<>> ELSE <<SubSeq(s, q + 1, e - 1), e + 1>>

\* the leftmost position in 1..Len(s) at which matcher m(s, p) is not <<>>
leftmost(s, m(_, _)) ==
  IF \A p \in 1..Len(s) : m(s, p) = <<>> THEN <<>>
  ELSE m(s, CHOOSE p \in 1..Len(s) : m(s, p) # <<>> /\ \A r \in 1..(p - 1) : m(s, r) = <<>>)

\* col => col.trim().replace(/["`']/g, '') over match[1].split(',')
columnList(group) ==
  LET parts == splitChar(group, ",")
  IN [i \in 1..Len(parts) |-> stripQuotes(trim(parts[i]))]

\* /PRIMARY\s+KEY\s*\(([^)]+)\)/i at position p
primaryKeyAt(s, p) ==
  LET q == kwSpacesAt(s, p, kwPRIMARY)
  IN IF q = 0 \/ ~hasAtCI(s, q, kwKEY) THEN <<>>
     ELSE parenGroupAt(s, skipSpaces(s, q + Len(kwKEY)))

parsePrimaryKey(line, table) ==
  LET match == leftmost(line, primaryKeyAt)
  IN IF match = <<>> THEN table
     ELSE [table EXCEPT !.primaryKeys = @ \o columnList(match[1])]

\* /UNIQUE\s*\(([^)]+)\)/i at position p
uniqueAt(s, p) ==
  IF ~hasAtCI(s, p, kwUNIQUE) THEN <<>>
  ELSE parenGroupAt(s, skipSpaces(s, p + Len(kwUNIQUE)))

parseUnique(line, table) ==
  LET match == leftmost(line, uniqueAt)
  IN IF match = <<>> THEN table
     ELSE [table EXCEPT !.uniqueConstraints = Append(@, columnList(match[1]))]

\* /FOREIGN\s+KEY\s*\(([^)]+)\)\s*REFERENCES\s+["`']?(\w+)["`']?\s*\(([^)]+)\)/i
\* at position p: <<group 1, group 2, group 3>>, or <<>>
foreignKeyAt(s, p) ==
  LET q == kwSpacesAt(s, p, kwFOREIGN)
  IN IF q = 0 \/ ~hasAtCI(s, q, kwKEY) THEN <<>>
     ELSE LET g1 == parenGroupAt(s, skipSpaces(s, q + Len(kwKEY)))
          IN IF g1 = <<>> THEN <<>>
             ELSE LET r == kwSpacesAt(s, skipSpaces(s, g1[2]), kwREFERENCES)
                  IN IF r = 0 \/ wordAt(s, r) = <<>> THEN <<>>
                     ELSE LET w0 == IF IsQuoteChar(s[r]) THEN r + 1 ELSE r
                              w1 == skipWord(s, w0)
                              w2 == IF w1 <= Len(s) /\ IsQuoteChar(s[w1]) THEN w1 + 1 ELSE w1
                              g3 == parenGroupAt(s, skipSpaces(s, w2))
                          IN IF g3 = <<>> THEN <<>>
                             ELSE <<g1[1], wordAt(s, r)[1], g3[1]>>

hasColumn(table, name) == \E i \in 1..Len(table.columns) : table.columns[i].name = name

\* table.columns[column.name] = column
setColumn(table, column) ==
  IF hasColumn(table, column.name)
  THEN [table EXCEPT !.columns =
          [i \in 1..Len(@) |-> IF @[i].name = column.name THEN column ELSE @[i]]]
  ELSE [table EXCEPT !.columns = Append(@, column)]

parseForeignKey(line, table) ==
  LET match == leftmost(line, foreignKeyAt)
  IN IF match = <<>> THEN table
     ELSE LET column == stripQuotes(trim(match[1]))
              referencesTable == match[2]
              referencesColumn == stripQuotes(trim(match[3]))
              t1 == [table EXCEPT !.foreignKeys = Append(@,
                       [column |-> column, referencesTable |-> referencesTable,
                        referencesColumn |-> referencesColumn])]
          IN [t1 EXCEPT !.columns =
                [i \in 1..Len(@) |->
                   IF @[i].name = column
                   THEN [@[i] EXCEPT !.foreignKey =
                           <<[table |-> referencesTable, column |-> referencesColumn]>>]
                   ELSE @[i]]]

parseConstraint(line, table) ==
  LET upperLine == toUpperCase(line)
  IN IF includes(upperLine, strPrimaryKey) THEN parsePrimaryKey(line, table)
     ELSE IF includes(upperLine, strForeignKey) THEN parseForeignKey(line, table)
     ELSE IF includes(upperLine, kwUNIQUE) THEN parseUnique(line, table)
     ELSE table

\* the Column of a column definition line, or <<>>
parseColumn(line) ==
  LET parts == splitSpaces(trim(line))
  IN IF Len(parts) < 2 THEN <<>>
     ELSE LET remainingParts == toUpperCase(join(SubSeq(parts, 3, Len(parts)), <<" ">>))
          IN <<[name       |-> stripQuotes(parts[1]),
                type       |-> toUpperCase(parts[2]),
                nullable   |-> ~includes(remainingParts, strNotNull),
                primaryKey |-> includes(remainingParts, strPrimaryKey),
                unique     |-> includes(remainingParts, kwUNIQUE),
                foreignKey |-> <<>>]>>

\* parseLine without lines 99-101: an inline key column is stored but its
\* name is not pushed to primaryKeys
parseLineNoKeyPush(line, table) ==
  LET trimmedLine == trim(line)
      upper == toUpperCase(trimmedLine)
  IN IF trimmedLine = <<>> THEN table
     ELSE IF startsWith(upper, strPrimaryKey) THEN parsePrimaryKey(trimmedLine, table)
     ELSE IF startsWith(upper, strForeignKey) THEN parseForeignKey(trimmedLine, table)
     ELSE IF startsWith(upper, kwUNIQUE) THEN parseUnique(trimmedLine, table)
     ELSE IF startsWith(upper, kwCONSTRAINT) THEN parseConstraint(trimmedLine, table)
     ELSE LET column == parseColumn(trimmedLine)
          IN IF column = <<>> THEN table ELSE setColumn(table, column[1])

\* one iteration of the loop of parseCreateTable over the split lines
parseLine(line, table) ==
  LET trimmedLine == trim(line)
      upper == toUpperCase(trimmedLine)
  IN IF trimmedLine = <<>> THEN table
     ELSE IF startsWith(upper, strPrimaryKey) THEN parsePrimaryKey(trimmedLine, table)
     ELSE IF startsWith(upper, strForeignKey) THEN parseForeignKey(trimmedLine, table)
     ELSE IF startsWith(upper, kwUNIQUE) THEN parseUnique(trimmedLine, table)
     ELSE IF startsWith(upper, kwCONSTRAINT) THEN parseConstraint(trimmedLine, table)
     ELSE LET column == parseColumn(trimmedLine)
          IN IF column = <<>> THEN table
             ELSE LET t1 == setColumn(table, column[1])
                  IN IF column[1].primaryKey
                     THEN [t1 EXCEPT !.primaryKeys = Append(@, column[1].name)]
                     ELSE t1

RECURSIVE parseLines(_, _)
parseLines(lines, table) ==
  IF lines = <<>> THEN table
  ELSE parseLines(Tail(lines), parseLine(Head(lines), table))

emptyTable(tableName) ==
  [name |-> tableName, columns |-> <<>>, primaryKeys |-> <<>>,
   foreignKeys |-> <<>>, uniqueConstraints |-> <<>>]

\* the Table of a CREATE TABLE statement, or <<>> (null)
parseCreateTable(statement) ==
  LET name == tableNameMatch(statement)
      cols == columnsMatch(statement)
  IN IF name = <<>> \/ cols = <<>> THEN <<>>
     ELSE <<parseLines(splitColumnDefinitions(cols[1]), emptyTable(name[1]))>>

\* schema.tables[table.name] = table
setTable(tables, table) ==
  IF \E i \in 1..Len(tables) : tables[i].name = table.name
  THEN [i \in 1..Len(tables) |-> IF tables[i].name = table.name THEN table ELSE tables[i]]
  ELSE Append(tables, table)

\* one iteration of the loop of parse over the statements
parseStatement(statement, tables) ==
  LET trimmedStatement == trim(statement)
  IN IF trimmedStatement = <<>> \/ ~startsWith(toUpperCase(trimmedStatement), strCreateTable)
     THEN tables
     ELSE LET table == parseCreateTable(trimmedStatement)
          IN IF table = <<>> THEN tables ELSE setTable(tables, table[1])

RECURSIVE parseStatements(_, _)
parseStatements(statements, tables) ==
  IF statements = <<>> THEN tables
  ELSE parseStatements(Tail(statements), parseStatement(Head(statements), tables))

\* parse(sqlContent): the tables of the schema.  No step of the try block
\* throws, so the catch block that wraps an error as "SQL parsing failed"
\* is never entered: the result is [threw |-> FALSE, ...] for every input.
parse(sqlContent) ==
  [threw |-> FALSE, tables |-> parseStatements(splitStatements(sqlContent), <<>>)]

(***************************************************************************)
(* DDL inputs.  A clause of a CREATE TABLE body is kept with what it       *)
(* declares (kind, the identifier as written, whether it was quoted, the   *)
(* key columns it names), so that the parser's result can be compared      *)
(* with the declaration; the parser itself only ever sees the text.        *)
(***************************************************************************)
chSP == <<" ">>
chNL == <<"\n">>
chDQ == <<"\"">>

\* a column definition: name [quoted], type, modifiers
ColumnClause(name, quoted, type, mods, inlinePk) ==
  [kind |-> "column", name |-> name, quoted |-> quoted, inlinePk |-> inlinePk,
   keyCols |-> <<>>,
   text |-> (IF quoted THEN chDQ \o name \o chDQ ELSE name) \o chSP \o type
            \o (IF mods = <<>> THEN <<>> ELSE chSP \o mods)]
\* a table constraint
ConstraintClause(kind, keyCols, text) ==
  [kind |-> kind, name |-> <<>>, quoted |-> FALSE, inlinePk |-> FALSE,
   keyCols |-> keyCols, text |-> text]

nm_id == <<"i","d">>
nm_a == <<"a">>
nm_b == <<"b">>
nm_unique_a == <<"u","n","i","q","u","e","_","a">>
nm_UserName == <<"U","s","e","r"," ","N","a","m","e">>
nm_Email == <<"E","m","a","i","l">>
nm_age == <<"a","g","e">>
nm_users == <<"u","s","e","r","s">>
nm_Orders == <<"O","r","d","e","r","s">>
nm_UserProfiles == <<"U","s","e","r"," ","P","r","o","f","i","l","e","s">>
ty_SERIAL == <<"S","E","R","I","A","L">>
ty_INTEGER == <<"I","N","T","E","G","E","R">>
ty_TEXT == <<"T","E","X","T">>
md_PK == <<"P","R","I","M","A","R","Y"," ","K","E","Y">>
md_NN == <<"N","O","T"," ","N","U","L","L">>
md_UNIQUE == <<"U","N","I","Q","U","E">>
md_CHECK == <<"C","H","E","C","K"," ","(","a","g","e"," ",">"," ","0",")">>
tx_PK_ba == <<"P","R","I","M","A","R","Y"," ","K","E","Y"," ","(","b",","," ","a",")">>
tx_PK2_ab == <<"P","R","I","M","A","R","Y"," "," ","K","E","Y"," ","(","a",","," ","b",")">>
tx_CPK_ab == <<"C","O","N","S","T","R","A","I","N","T"," ","p","k"," ","P","R","I","M","A","R","Y"," ","K","E","Y"," ","(","a",","," ","b",")">>
tx_FK_a == <<"F","O","R","E","I","G","N"," ","K","E","Y"," ","(","a",")"," ","R","E","F","E","R","E","N","C","E","S"," ","u","s","e","r","s","(","i","d",")">>
tx_Trigger == <<"C","R","E","A","T","E"," ","T","R","I","G","G","E","R"," ","t","r","g"," ","B","E","F","O","R","E"," ","U","P","D","A","T","E"," ","O","N"," ","u","s","e","r","s"," ","F","O","R"," ","E","A","C","H"," ","R","O","W"," ","E","X","E","C","U","T","E"," ","F","U","N","C","T","I","O","N"," ","f","(",")">>
tx_OpenParen == <<" ","(">>
tx_CloseStmt == <<")",";">>
tx_CommaNL == <<",","\n">>

clId       == ColumnClause(nm_id, FALSE, ty_SERIAL, md_PK, TRUE)
clA        == ColumnClause(nm_a, FALSE, ty_INTEGER, <<>>, FALSE)
clB        == ColumnClause(nm_b, FALSE, ty_INTEGER, md_NN, FALSE)
clUniqueA  == ColumnClause(nm_unique_a, FALSE, ty_INTEGER, md_PK, TRUE)
clUserName == ColumnClause(nm_UserName, TRUE, ty_TEXT, md_NN, FALSE)
clEmail    == ColumnClause(nm_Email, FALSE, ty_TEXT, md_UNIQUE, FALSE)
clAgeCheck == ColumnClause(nm_age, FALSE, ty_INTEGER, md_CHECK, FALSE)
clPkBA     == ConstraintClause("primary_key", <<nm_b, nm_a>>, tx_PK_ba)
clPk2AB    == ConstraintClause("primary_key", <<nm_a, nm_b>>, tx_PK2_ab)
clCPkAB    == ConstraintClause("constraint_primary_key", <<nm_a, nm_b>>, tx_CPK_ab)
clFkA      == ConstraintClause("foreign_key", <<>>, tx_FK_a)

Clauses == {clId, clA, clB, clUniqueA, clUserName, clEmail, clAgeCheck, clPkBA, clPk2AB,
            clCPkAB, clFkA}

\* a table name as written: the identifier and whether it is double-quoted
TableNames == {[name |-> nm_users, quoted |-> FALSE],
               [name |-> nm_Orders, quoted |-> FALSE],
               [name |-> nm_UserProfiles, quoted |-> TRUE]}

\* the most clauses in the body of the table named users, and in the body
\* of the other tables and of the malformed statements
MaxClauses == 2
MaxClausesOther == 1

SeqsUpTo(S, n) == UNION {[1..k -> S] : k \in 0..n}

Shapes == {"ok", "unclosed", "nolist", "trigger"}

DdlInputs ==
  {[shape |-> "ok", table |-> [name |-> nm_users, quoted |-> FALSE], clauses |-> cs] :
      cs \in SeqsUpTo(Clauses, MaxClauses)}
  \cup {[shape |-> sh, table |-> t, clauses |-> cs] :
      sh \in Shapes, t \in TableNames, cs \in SeqsUpTo(Clauses, MaxClausesOther)}

RECURSIVE joinTexts(_, _)
joinTexts(cs, sep) ==
  IF cs = <<>> THEN <<>>
  ELSE IF Len(cs) = 1 THEN cs[1].text
       ELSE cs[1].text \o sep \o joinTexts(Tail(cs), sep)

\* the SQL text of a DDL input
Render(d) ==
  LET nameText == IF d.table.quoted THEN chDQ \o d.table.name \o chDQ ELSE d.table.name
      head == strCreateTable \o chSP \o nameText
      body == chNL \o joinTexts(d.clauses, tx_CommaNL) \o chNL
  IN CASE d.shape = "ok"       -> head \o tx_OpenParen \o body \o tx_CloseStmt
       [] d.shape = "unclosed" -> head \o tx_OpenParen \o body
       [] d.shape = "nolist"   -> head \o <<";">>
       [] d.shape = "trigger"  -> head \o tx_OpenParen \o body \o tx_CloseStmt \o chNL
                                  \o tx_Trigger \o <<";">>

(***************************************************************************)
(* SQL scripts: CREATE TABLE statements among statements of other kinds.   *)
(* A comment ends at its line or at its closing mark, not at a ";".        *)
(***************************************************************************)
tx_CreateUsers == <<"C","R","E","A","T","E"," ","T","A","B","L","E"," ","u","s","e","r","s"," ","(","i","d"," ","S","E","R","I","A","L"," ","P","R","I","M","A","R","Y"," ","K","E","Y",")",";">>
tx_CreateOrders == <<"C","R","E","A","T","E"," ","T","A","B","L","E"," ","O","r","d","e","r","s"," ","(","i","d"," ","S","E","R","I","A","L"," ","P","R","I","M","A","R","Y"," ","K","E","Y",")",";">>
tx_AlterTable == <<"A","L","T","E","R"," ","T","A","B","L","E"," ","u","s","e","r","s"," ","A","D","D"," ","C","O","L","U","M","N"," ","b"," ","I","N","T","E","G","E","R",";">>
tx_CreateView == <<"C","R","E","A","T","E"," ","V","I","E","W"," ","v"," ","A","S"," ","S","E","L","E","C","T"," ","i","d"," ","F","R","O","M"," ","u","s","e","r","s",";">>
tx_LineComment == <<"-","-"," ","t","h","e"," ","t","a","b","l","e","s">>
tx_BlockComment == <<"/","*"," ","t","h","e"," ","t","a","b","l","e","s"," ","*","/">>

ScriptItems ==
  {[kind |-> "create", name |-> nm_users, text |-> tx_CreateUsers],
   [kind |-> "create", name |-> nm_Orders, text |-> tx_CreateOrders],
   [kind |-> "alter", name |-> <<>>, text |-> tx_AlterTable],
   [kind |-> "view", name |-> <<>>, text |-> tx_CreateView],
   [kind |-> "comment", name |-> <<>>, text |-> tx_LineComment],
   [kind |-> "comment", name |-> <<>>, text |-> tx_BlockComment],
   [kind |-> "empty", name |-> <<>>, text |-> <<>>]}

\* the most items of a script
MaxItems == 3

\* the CREATE TABLE items of a script, in order
createItems(items) == SelectSeq(items, LAMBDA it : it.kind = "create")

ScriptInputs ==
  {[shape |-> "script", items |-> items] :
     items \in {is \in SeqsUpTo(ScriptItems, MaxItems) :
                  \A i, j \in 1..Len(is) :
                     (i # j /\ is[i].kind = "create" /\ is[j].kind = "create")
                       => is[i].name # is[j].name}}

\* the SQL text of a script: one item per line
RenderScript(d) == join([i \in 1..Len(d.items) |-> d.items[i].text], chNL)

(***************************************************************************)
(* DumpParser (src/backend/src/parser/dumpParser.ts).                      *)
(***************************************************************************)
\* [a-zA-Z_][a-zA-Z0-9_]* at position q: the position after it, or 0
identAt(s, q) ==
  IF q <= Len(s) /\ IsIdentStart(s[q]) THEN skipWord(s, q) ELSE 0

\* \s*\( at position q
openParenAt(s, q) ==
  LET r == skipSpaces(s, q) IN r <= Len(s) /\ s[r] = "("

\* \.([a-zA-Z_][a-zA-Z0-9_]*)\s*\( at position d
dotNameAt(s, d) ==
  d <= Len(s) /\ s[d] = "." /\ identAt(s, d + 1) # 0 /\ openParenAt(s, identAt(s, d + 1))

\* ([a-zA-Z_][a-zA-Z0-9_]*)(?:.*?\.([a-zA-Z_][a-zA-Z0-9_]*))?\s*\( at position
\* q: <<[g1, g2]>> with g2 of length 0 when undefined, or <<>>.  The optional
\* group is tried first, its lazy .*? stopping at the leftmost dot that lets
\* the rest match.
namesAt(s, q) ==
  LET e1 == identAt(s, q)
      dots == {d \in e1..Len(s) : dotNameAt(s, d)}
  IN IF e1 = 0 THEN <<>>
     ELSE IF dots # {}
     THEN LET d == CHOOSE x \in dots : \A y \in dots : x <= y
          IN <<[g1 |-> SubSeq(s, q, e1 - 1), g2 |-> <<SubSeq(s, d + 1, identAt(s, d + 1) - 1)>>]>>
     ELSE IF openParenAt(s, e1)
     THEN <<[g1 |-> SubSeq(s, q, e1 - 1), g2 |-> <<>>]>>
     ELSE <<>>

\* the expression of lines 72 and 165 without its prefix, at position p
createTableMatchAt(s, p) ==
  LET q == createTableAt(s, p)
  IN IF q = 0 THEN <<>>
     ELSE LET g == ifNotExistsAt(s, q)
          IN IF g # 0 /\ namesAt(s, g) # <<>> THEN namesAt(s, g) ELSE namesAt(s, q)

\* line.match of line 165: the leftmost match
textCreateTableMatch(line) == leftmost(line, createTableMatchAt)

\* line.match of line 72: the greedy .* prefix gives the rightmost match
binaryCreateTableMatch(line) ==
  IF \A p \in 1..Len(line) : createTableMatchAt(line, p) = <<>> THEN <<>>
  ELSE createTableMatchAt(line, CHOOSE p \in 1..Len(line) :
         /\ createTableMatchAt(line, p) # <<>>
         /\ \A r \in (p + 1)..Len(line) : createTableMatchAt(line, r) = <<>>)

\* kw\s+ at position q (case-sensitive): the position after the spaces, or 0
kwSpacesAtCS(s, q, kw) ==
  IF hasAt(s, q, kw) /\ q + Len(kw) <= Len(s) /\ IsSpace(s[q + Len(kw)])
  THEN skipSpaces(s, q + Len(kw)) ELSE 0

\* ([a-zA-Z_][a-zA-Z0-9_]+)\s*\( at position q: <<group 1>>, or <<>>
simpleNameAt(s, q) ==
  LET e == identAt(s, q)
  IN IF e >= q + 2 /\ openParenAt(s, e) THEN <<SubSeq(s, q, e - 1)>> ELSE <<>>

\* the fallback expression of line 179 (case-sensitive) at position p
tableMatchAt(s, p) ==
  LET q1 == kwSpacesAtCS(s, p, kwCREATE)
      q == IF q1 = 0 THEN 0 ELSE kwSpacesAtCS(s, q1, kwTABLE)
      g1 == IF q = 0 THEN 0 ELSE kwSpacesAtCS(s, q, kwIF)
      g2 == IF g1 = 0 THEN 0 ELSE kwSpacesAtCS(s, g1, kwNOT)
      g == IF g2 = 0 THEN 0 ELSE kwSpacesAtCS(s, g2, kwEXISTS)
  IN IF q = 0 THEN <<>>
     ELSE IF g # 0 /\ simpleNameAt(s, g) # <<>> THEN simpleNameAt(s, g)
     ELSE simpleNameAt(s, q)

tableMatch(line) == leftmost(line, tableMatchAt)

\* the ExtractedTable of lines 82-89 and 169-176 for a match
extractedTable(m) ==
  LET hasSchema == m.g2 # <<>>
  IN [schema |-> IF hasSchema THEN toLowerCase(m.g1) ELSE strPublic,
      tableName |-> IF hasSchema THEN toLowerCase(m.g2[1]) ELSE toLowerCase(m.g1),
      columns |-> <<>>, constraints |-> <<>>, source |-> "dump", createStatement |-> <<>>]

\* the ExtractedTable of lines 181-188 for a fallback match
fallbackTable(name) ==
  [schema |-> strPublic, tableName |-> toLowerCase(name),
   columns |-> <<>>, constraints |-> <<>>, source |-> "dump", createStatement |-> <<>>]

\* currentTable after a CREATE TABLE line of a text dump, lines 165-190
textCurrentTable(line, currentTable) ==
  IF textCreateTableMatch(line) # <<>> THEN <<extractedTable(textCreateTableMatch(line)[1])>>
  ELSE IF tableMatch(line) # <<>> THEN <<fallbackTable(tableMatch(line)[1])>>
  ELSE currentTable

\* (line.match(/\(/g) || []).length - (line.match(/\)/g) || []).length
braceDelta(line) == countChar(line, "(") - countChar(line, ")")

\* !line || line.startsWith('--') || line.startsWith('/*')
isSkippedLine(line) ==
  line = <<>> \/ startsWith(line, strDashDash) \/ startsWith(line, strSlashStar)

\* the test that a line starts a CREATE TABLE block: line 73 or line 158
isCreateTableLine(format, line) ==
  IF format = "binary" THEN binaryCreateTableMatch(line) # <<>>
  ELSE startsWith(line, strCreateTable) \/ startsWith(line, strCreateTableIfNotExists)

(***************************************************************************)
(* Dump inputs: a header line, then CREATE TABLE statements, each written  *)
(* on one line or on several and followed by an empty line, then           *)
(* optionally a statement of another kind.                                 *)
(***************************************************************************)
nm_sales == <<"s","a","l","e","s">>
nm_orders == <<"o","r","d","e","r","s">>
nm_Items == <<"I","t","e","m","s">>
tx_TextHeader == <<"-","-"," ","P","o","s","t","g","r","e","S","Q","L"," ","d","a","t","a","b","a","s","e"," ","d","u","m","p">>
tx_Comment == <<"C","O","M","M","E","N","T"," ","O","N"," ","T","A","B","L","E"," ","u","s","e","r","s"," ","I","S"," ","'","x","'",";">>
tx_Indent == <<" "," ">>
tx_CommaSP == <<","," ">>

\* a table name as a dump writes it: schema (optional), name, quoted or not
DumpNames == {[schema |-> <<>>, name |-> nm_users, quoted |-> FALSE],
              [schema |-> <<nm_sales>>, name |-> nm_orders, quoted |-> FALSE],
              [schema |-> <<>>, name |-> nm_Items, quoted |-> TRUE]}

DumpBody == <<clId, clB>>

DumpStatements ==
  {[table |-> t, layout |-> l, clauses |-> DumpBody] : t \in DumpNames, l \in {"one", "multi"}}

\* the most CREATE TABLE statements in a dump
MaxDumpStatements == 2

\* a dump: its statements, then either nothing, or a statement of another
\* kind (trailer), or the end of the file inside the last statement, whose
\* closing ");" is missing (unclosed)
DumpInputs ==
  {[format |-> f, stmts |-> ss, trailer |-> tl = "trailer", unclosed |-> tl = "unclosed"] :
     f \in {"text", "binary"},
     ss \in UNION {[1..k -> DumpStatements] : k \in 1..MaxDumpStatements},
     tl \in {"none", "trailer", "unclosed"}}

DumpNameText(t) ==
  (IF t.schema = <<>> THEN <<>> ELSE t.schema[1] \o <<".">>)
  \o (IF t.quoted THEN chDQ \o t.name \o chDQ ELSE t.name)

\* the lines of a statement as the dump writes them
StatementLines(st) ==
  LET head == strCreateTable \o chSP \o DumpNameText(st.table) \o tx_OpenParen
      n == Len(st.clauses)
  IN IF st.layout = "one"
     THEN <<head \o joinTexts(st.clauses, tx_CommaSP) \o tx_CloseStmt>>
     ELSE <<head>>
          \o [i \in 1..n |-> tx_Indent \o st.clauses[i].text \o (IF i < n THEN <<",">> ELSE <<>>)]
          \o <<tx_CloseStmt>>

\* the text of a statement as an extracted block is to hold it: its lines,
\* trimmed, joined by a newline
StatementText(st) ==
  LET ls == StatementLines(st) IN join([i \in 1..Len(ls) |-> trim(ls[i])], chNL)

\* the lines of a statement that the end of the file cuts before its ");"
OpenStatementLines(st) ==
  LET ls == StatementLines(st)
  IN IF st.layout = "one"
     THEN <<SubSeq(ls[1], 1, Len(ls[1]) - Len(tx_CloseStmt))>>
     ELSE SubSeq(ls, 1, Len(ls) - 1)

RECURSIVE DumpStatementLines(_)
DumpStatementLines(ss) ==
  IF ss = <<>> THEN <<>>
  ELSE StatementLines(Head(ss)) \o <<<<>>>> \o DumpStatementLines(Tail(ss))

DumpLines(d) ==
  <<IF d.format = "binary" THEN strPGDMP ELSE tx_TextHeader>>
  \o (IF d.unclosed
      THEN DumpStatementLines(SubSeq(d.stmts, 1, Len(d.stmts) - 1))
           \o OpenStatementLines(d.stmts[Len(d.stmts)])
      ELSE DumpStatementLines(d.stmts))
  \o (IF d.trailer THEN <<tx_Comment>> ELSE <<>>)

RenderDump(d) == join(DumpLines(d), chNL)

(***************************************************************************)
(* The rules (src/backend/src/rules) and the ComplianceCalculator          *)
(* (src/backend/src/analyzer/complianceCalculator.ts).                     *)
(* A schema is the sequence of its tables in insertion order.  Weights are *)
(* in hundredths, confidences in tenths, scores in hundredths of a         *)
(* percent.  A Violation keeps normalForm, table, column, severity,        *)
(* message and confidence; explanation and suggestion are texts that       *)
(* nothing reads.                                                          *)
(***************************************************************************)
strColumnQ == <<"C","o","l","u","m","n"," ","'">>
strTableQ == <<"T","a","b","l","e"," ","'">>
strHasArrayType == <<"'"," ","h","a","s"," ","a","r","r","a","y"," ","t","y","p","e"," ","w","h","i","c","h"," ","v","i","o","l","a","t","e","s"," ","1","N","F">>
strHasJsonType == <<"'"," ","h","a","s"," ","J","S","O","N"," ","t","y","p","e"," ","w","h","i","c","h"," ","m","a","y"," ","v","i","o","l","a","t","e"," ","1","N","F">>
strSuggestsMultiValue == <<"'"," ","n","a","m","e"," ","s","u","g","g","e","s","t","s"," ","m","u","l","t","i","-","v","a","l","u","e"," ","s","t","o","r","a","g","e">>
strHasNoPrimaryKey == <<"'"," ","h","a","s"," ","n","o"," ","p","r","i","m","a","r","y"," ","k","e","y">>
strBrackets == <<"[","]">>
strARRAY == <<"A","R","R","A","Y">>
strJSON == <<"J","S","O","N">>
strJSONB == <<"J","S","O","N","B">>
strTEXT == <<"T","E","X","T">>
str_json == <<"j","s","o","n">>
str_array == <<"a","r","r","a","y">>
str_multi_value == <<"m","u","l","t","i","-","v","a","l","u","e">>
str_atomic == <<"a","t","o","m","i","c">>
str_no_primary_key == <<"n","o"," ","p","r","i","m","a","r","y"," ","k","e","y">>
str_has_no_primary_key == <<"h","a","s"," ","n","o"," ","p","r","i","m","a","r","y"," ","k","e","y">>

\* /list/i, /array/i, ... of suggestsMultiValue, lines 127-136
multiValuePatterns == <<<<"l","i","s","t">>, <<"a","r","r","a","y">>, <<"i","t","e","m","s">>, <<"v","a","l","u","e","s">>, <<"d","a","t","a">>, <<"i","n","f","o">>, <<"d","e","t","a","i","l","s">>, <<"a","t","t","r","i","b","u","t","e","s">>>>

endsWith(s, p) == hasAt(s, Len(s) - Len(p) + 1, p)

\* pattern.test(s) for a case-insensitive literal pattern
testCI(s, p) == includes(toLowerCase(s), toLowerCase(p))

RECURSIVE concat(_)
concat(ss) == IF ss = <<>> THEN <<>> ELSE Head(ss) \o concat(Tail(ss))

\* createViolation, normalizationRule.ts lines 43-62
createViolation(normalForm, table, column, message, severity, confidence) ==
  [normalForm |-> normalForm, table |-> table, column |-> column,
   severity |-> severity, message |-> message, confidence |-> confidence]

\* the violations of f(table, column) over the columns of the tables, in
\* the order of the nested loops over Object.entries
overColumns(schema, f(_, _)) ==
  concat([t \in 1..Len(schema) |->
            concat([c \in 1..Len(schema[t].columns) |-> f(schema[t], schema[t].columns[c])])])

weightNoRepeatingGroups == 25
weightAtomicValues == 10
weightPrimaryKey == 40

isArrayType(type) == includes(type, strBrackets) \/ includes(toUpperCase(type), strARRAY)

isJsonType(type) ==
  includes(toUpperCase(type), strJSON) \/ includes(toUpperCase(type), strJSONB)

\* NoRepeatingGroupsRule.evaluate for one column with the confidence of the
\* JSON violation given to the array violation too
noRepeatingGroupsOfUnsure(table, column) ==
  (IF isArrayType(column.type)
   THEN <<createViolation("1NF", table.name, <<column.name>>,
            strColumnQ \o column.name \o strHasArrayType, "ERROR", 8)>>
   ELSE <<>>)
  \o (IF isJsonType(column.type)
      THEN <<createViolation("1NF", table.name, <<column.name>>,
               strColumnQ \o column.name \o strHasJsonType, "WARNING", 8)>>
      ELSE <<>>)

\* NoRepeatingGroupsRule.evaluate, lines 16-40, for one column
noRepeatingGroupsOf(table, column) ==
  (IF isArrayType(column.type)
   THEN <<createViolation("1NF", table.name, <<column.name>>,
            strColumnQ \o column.name \o strHasArrayType, "ERROR", 10)>>
   ELSE <<>>)
  \o (IF isJsonType(column.type)
      THEN <<createViolation("1NF", table.name, <<column.name>>,
               strColumnQ \o column.name \o strHasJsonType, "WARNING", 8)>>
      ELSE <<>>)

suggestsMultiValue(columnName, dataType) ==
  /\ \E i \in 1..Len(multiValuePatterns) : testCI(columnName, multiValuePatterns[i])
  /\ ~includes(toUpperCase(dataType), strTEXT)

\* AtomicValuesRule.evaluate, lines 88-99, for one column
atomicValuesOf(table, column) ==
  IF suggestsMultiValue(column.name, column.type)
  THEN <<createViolation("1NF", table.name, <<column.name>>,
           strColumnQ \o column.name \o strSuggestsMultiValue, "WARNING", 7)>>
  ELSE <<>>

\* PrimaryKeyRule.evaluate, lines 153-166
primaryKeyViolations(schema) ==
  concat([t \in 1..Len(schema) |->
            IF Len(schema[t].primaryKeys) = 0
            THEN <<createViolation("1NF", schema[t].name, <<>>,
                     strTableQ \o schema[t].name \o strHasNoPrimaryKey, "ERROR", 10)>>
            ELSE <<>>])

strMayHavePartial == <<"'"," ","m","a","y"," ","h","a","v","e"," ","p","a","r","t","i","a","l"," ","d","e","p","e","n","d","e","n","c","y"," ","o","n"," ","c","o","m","p","o","s","i","t","e"," ","p","r","i","m","a","r","y"," ","k","e","y">>
strMayNotHaveFull == <<"'"," ","m","a","y"," ","n","o","t"," ","h","a","v","e"," ","f","u","l","l"," ","f","u","n","c","t","i","o","n","a","l"," ","d","e","p","e","n","d","e","n","c","y"," ","o","n"," ","p","r","i","m","a","r","y"," ","k","e","y">>
strAppearsDeterminant == <<"'"," ","a","p","p","e","a","r","s"," ","t","o"," ","b","e"," ","a"," ","d","e","t","e","r","m","i","n","a","n","t"," ","b","u","t"," ","n","o","t"," ","a"," ","c","a","n","d","i","d","a","t","e"," ","k","e","y">>
str_partial_dependency == <<"p","a","r","t","i","a","l"," ","d","e","p","e","n","d","e","n","c","y">>
str_full_functional_dependency == <<"f","u","l","l"," ","f","u","n","c","t","i","o","n","a","l"," ","d","e","p","e","n","d","e","n","c","y">>
str_determinant == <<"d","e","t","e","r","m","i","n","a","n","t">>
str_transitive == <<"t","r","a","n","s","i","t","i","v","e">>
str_candidate_key == <<"c","a","n","d","i","d","a","t","e"," ","k","e","y">>
str_description == <<"d","e","s","c","r","i","p","t","i","o","n">>
str__id == <<"_","i","d">>
str__code == <<"_","c","o","d","e">>
str__type == <<"_","t","y","p","e">>
str__name == <<"_","n","a","m","e">>
str_id == <<"i","d">>

\* s.replace(p, '') for a string pattern: the first occurrence is removed
removeFirst(s, p) ==
  IF ~includes(s, p) THEN s
  ELSE LET k == CHOOSE i \in 1..(Len(s) + 1) :
                  hasAt(s, i, p) /\ \A j \in 1..(i - 1) : ~hasAt(s, j, p)
       IN SubSeq(s, 1, k - 1) \o SubSeq(s, k + Len(p), Len(s))

max(a, b) == IF a >= b THEN a ELSE b
min(a, b) == IF a <= b THEN a ELSE b

weightNoPartialDependency == 60
weightFullFunctionalDependency == 40
weightNoTransitiveDependency == 50
weightBoyceCodd == 50

\* getNonKeyColumns, normalizationRule.ts lines 83-90
isKeyName(table, name) == \E i \in 1..Len(table.primaryKeys) : table.primaryKeys[i] = name
getNonKeyColumns(table) ==
  LET keep == {i \in 1..Len(table.columns) : ~isKeyName(table, table.columns[i].name)}
      RECURSIVE pick(_)
      pick(i) == IF i > Len(table.columns) THEN <<>>
                 ELSE (IF i \in keep THEN <<table.columns[i]>> ELSE <<>>) \o pick(i + 1)
  IN pick(1)

\* partialIndicators, secondNormalFormRules.ts lines 68-73: the suffix each
\* indicator removes from a key part, and its weight (the pattern field is
\* never read)
partialIndicators == <<[suffix |-> str__id, weight |-> 8], [suffix |-> str__code, weight |-> 8],
                       [suffix |-> str__type, weight |-> 7], [suffix |-> str__name, weight |-> 6]>>

\* assessPartialDependencyConfidence, lines 62-88
assessPartialDependencyConfidence(column, table) ==
  LET columnName == toLowerCase(column.name)
      primaryKeyParts == [i \in 1..Len(table.primaryKeys) |-> toLowerCase(table.primaryKeys[i])]
      hits == {partialIndicators[k].weight : k \in
                 {k \in 1..Len(partialIndicators) :
                    \E i \in 1..Len(primaryKeyParts) :
                      includes(columnName, removeFirst(primaryKeyParts[i], partialIndicators[k].suffix))}}
      c1 == IF hits = {} THEN 0 ELSE CHOOSE w \in hits : \A v \in hits : v <= w
  IN IF includes(columnName, str_description)
        /\ \E i \in 1..Len(primaryKeyParts) : includes(primaryKeyParts[i], str_id)
     THEN max(c1, 5) ELSE c1

\* NoPartialDependencyRule.evaluate, lines 14-37
noPartialDependencyViolations(schema) ==
  concat([t \in 1..Len(schema) |->
    IF Len(schema[t].primaryKeys) <= 1 THEN <<>>
    ELSE LET cols == getNonKeyColumns(schema[t])
         IN concat([c \in 1..Len(cols) |->
              LET confidence == assessPartialDependencyConfidence(cols[c], schema[t])
              IN IF confidence > 6
                 THEN <<createViolation("2NF", schema[t].name, <<cols[c].name>>,
                          strColumnQ \o cols[c].name \o strMayHavePartial, "WARNING", confidence)>>
                 ELSE <<>>])])

\* derivedPatterns, lines 151-160: the anchored ones and the unanchored ones
derivedSuffixes == <<<<"_","t","o","t","a","l">>, <<"_","s","u","m">>, <<"_","c","o","u","n","t">>, <<"_","a","v","g">>>>
derivedInfixes == <<<<"a","v","e","r","a","g","e","_">>, <<"c","a","l","c","_">>, <<"c","o","m","p","u","t","e","d","_">>, <<"c","o","u","n","t","_">>>>

\* assessFunctionalDependencyConfidence, lines 147-163
assessFunctionalDependencyConfidence(column) ==
  LET columnName == toLowerCase(column.name)
  IN IF \/ \E i \in 1..Len(derivedSuffixes) : endsWith(columnName, toLowerCase(derivedSuffixes[i]))
        \/ \E i \in 1..Len(derivedInfixes) : testCI(columnName, derivedInfixes[i])
     THEN 7 ELSE 3

\* FullFunctionalDependencyRule.evaluate, lines 101-124
fullFunctionalDependencyViolations(schema) ==
  concat([t \in 1..Len(schema) |->
    IF Len(schema[t].primaryKeys) = 0 THEN <<>>
    ELSE LET cols == getNonKeyColumns(schema[t])
         IN concat([c \in 1..Len(cols) |->
              LET confidence == assessFunctionalDependencyConfidence(cols[c])
              IN IF confidence > 5
                 THEN <<createViolation("2NF", schema[t].name, <<cols[c].name>>,
                          strColumnQ \o cols[c].name \o strMayNotHaveFull, "WARNING", confidence)>>
                 ELSE <<>>])])

\* keyPatterns, normalizationRule.ts lines 177-185, and referencePatterns,
\* lines 191-198: all anchored at the end, tested on a lowercased name
keyPatterns == <<<<"_","i","d">>, <<"_","c","o","d","e">>, <<"_","t","y","p","e">>, <<"_","s","t","a","t","u","s">>, <<"c","a","t","e","g","o","r","y">>, <<"t","y","p","e">>, <<"s","t","a","t","u","s">>>>
referencePatterns == <<<<"c","o","u","n","t","r","y">>, <<"s","t","a","t","e">>, <<"c","i","t","y">>, <<"d","e","p","a","r","t","m","e","n","t">>, <<"l","o","c","a","t","i","o","n">>, <<"r","e","g","i","o","n">>>>

isCandidateKeyName(columnName) ==
  \E i \in 1..Len(keyPatterns) : endsWith(columnName, keyPatterns[i])

isCommonReference(columnName) ==
  \E i \in 1..Len(referencePatterns) : endsWith(columnName, referencePatterns[i])

\* findTransitiveDependencyCandidates, lines 159-174
findTransitiveDependencyCandidates(column, nonKeyColumns) ==
  SelectSeq([i \in 1..Len(nonKeyColumns) |-> nonKeyColumns[i].name],
            LAMBDA n : /\ n # column.name
                       /\ (isCandidateKeyName(toLowerCase(n)) \/ isCommonReference(toLowerCase(n))))

\* NoTransitiveDependencyRule.evaluate, lines 111-134.  For a column with a
\* candidate, assessTransitiveDependencyConfidence (lines 203-217) calls
\* itself with two strings, and column.name.toLowerCase() of a string
\* throws a TypeError; with no candidate the confidence is 0.  So the rule
\* either throws or returns no violation.
noTransitiveDependencyThrows(schema) ==
  \E t \in 1..Len(schema) :
    /\ Len(schema[t].primaryKeys) # 0
    /\ \E c \in 1..Len(getNonKeyColumns(schema[t])) :
         findTransitiveDependencyCandidates(getNonKeyColumns(schema[t])[c],
                                            getNonKeyColumns(schema[t])) # <<>>

\* determinantPatterns, lines 326-334: the case-sensitive ones and the /i ones
determinantSuffixes == <<<<"_","i","d">>, <<"_","c","o","d","e">>, <<"_","t","y","p","e">>>>
determinantSuffixesCI == <<<<"e","m","a","i","l">>, <<"u","s","e","r","n","a","m","e">>, <<"s","s","n">>, <<"t","a","x","_","i","d">>>>

isLikelyDeterminant(columnName) ==
  \/ \E i \in 1..Len(determinantSuffixes) : endsWith(columnName, determinantSuffixes[i])
  \/ \E i \in 1..Len(determinantSuffixesCI) :
       endsWith(toLowerCase(columnName), determinantSuffixesCI[i])

\* identifyCandidateKeys, lines 300-319, as the set of its names
identifyCandidateKeys(table) ==
  {table.primaryKeys[i] : i \in 1..Len(table.primaryKeys)}
  \cup {table.columns[i].name : i \in {j \in 1..Len(table.columns) : table.columns[j].unique}}
  \cup {table.uniqueConstraints[i][1] :
          i \in {j \in 1..Len(table.uniqueConstraints) : Len(table.uniqueConstraints[j]) = 1}}

\* BoyceCoddRule.evaluate, lines 260-277, for one column
boyceCoddOf(table, column) ==
  IF isLikelyDeterminant(column.name) /\ column.name \notin identifyCandidateKeys(table)
  THEN <<createViolation("3NF", table.name, <<column.name>>,
           strColumnQ \o column.name \o strAppearsDeterminant, "WARNING", 7)>>
  ELSE <<>>

\* this.rules in insertion order, complianceCalculator.ts lines 702-721
rules == <<
  [normalForm |-> "1NF", name |-> "No Repeating Groups", weight |-> weightNoRepeatingGroups],
  [normalForm |-> "1NF", name |-> "Atomic Values", weight |-> weightAtomicValues],
  [normalForm |-> "1NF", name |-> "Primary Key Required", weight |-> weightPrimaryKey],
  [normalForm |-> "2NF", name |-> "No Partial Dependencies", weight |-> weightNoPartialDependency],
  [normalForm |-> "2NF", name |-> "Full Functional Dependency",
   weight |-> weightFullFunctionalDependency],
  [normalForm |-> "3NF", name |-> "No Transitive Dependencies",
   weight |-> weightNoTransitiveDependency],
  [normalForm |-> "3NF", name |-> "Boyce-Codd Normal Form Check", weight |-> weightBoyceCodd]>>

\* rule.evaluate(schema): [threw, violations]
evaluate(rule, schema) ==
  CASE rule.name = "No Repeating Groups" ->
         [threw |-> FALSE, violations |-> overColumns(schema, noRepeatingGroupsOf)]
    [] rule.name = "Atomic Values" ->
         [threw |-> FALSE, violations |-> overColumns(schema, atomicValuesOf)]
    [] rule.name = "Primary Key Required" ->
         [threw |-> FALSE, violations |-> primaryKeyViolations(schema)]
    [] rule.name = "No Partial Dependencies" ->
         [threw |-> FALSE, violations |-> noPartialDependencyViolations(schema)]
    [] rule.name = "Full Functional Dependency" ->
         [threw |-> FALSE, violations |-> fullFunctionalDependencyViolations(schema)]
    [] rule.name = "No Transitive Dependencies" ->
         [threw |-> noTransitiveDependencyThrows(schema), violations |-> <<>>]
    [] rule.name = "Boyce-Codd Normal Form Check" ->
         [threw |-> FALSE, violations |-> overColumns(schema, boyceCoddOf)]

\* matchesRule, lines 113-151
matchesRule(violation, rule) ==
  LET message == toLowerCase(violation.message)
  IN CASE rule.name = "No Repeating Groups" ->
            includes(message, str_json) \/ includes(message, str_array)
       [] rule.name = "Atomic Values" ->
            includes(message, str_multi_value) \/ includes(message, str_atomic)
       [] rule.name = "Primary Key Required" ->
            includes(message, str_no_primary_key) \/ includes(message, str_has_no_primary_key)
       [] rule.name = "No Partial Dependencies" -> includes(message, str_partial_dependency)
       [] rule.name = "Full Functional Dependency" ->
            includes(message, str_full_functional_dependency)
       [] rule.name = "No Transitive Dependencies" ->
            includes(message, str_determinant) \/ includes(message, str_transitive)
       [] rule.name = "Boyce-Codd Normal Form Check" ->
            includes(message, str_determinant) \/ includes(message, str_candidate_key)
       [] OTHER -> FALSE

\* findRuleByViolation, lines 101-111: <<the first matching rule>>, or <<>>
findRuleByViolation(violation) ==
  LET hits == {i \in 1..Len(rules) :
                 rules[i].normalForm = violation.normalForm /\ matchesRule(violation, rules[i])}
  IN IF hits = {} THEN <<>> ELSE <<rules[CHOOSE i \in hits : \A j \in hits : i <= j]>>

\* calculateWeightedViolations, lines 84-99
RECURSIVE calculateWeightedViolations(_, _)
calculateWeightedViolations(violations, normalForm) ==
  IF violations = <<>> THEN 0
  ELSE LET rule == findRuleByViolation(Head(violations))
       IN (IF Head(violations).normalForm = normalForm /\ rule # <<>> THEN rule[1].weight ELSE 0)
          + calculateWeightedViolations(Tail(violations), normalForm)

\* getUniqueRuleCount, lines 153-164
getUniqueRuleCount(violations, normalForm) ==
  Cardinality({findRuleByViolation(violations[i])[1].name :
                 i \in {j \in 1..Len(violations) :
                          /\ violations[j].normalForm = normalForm
                          /\ findRuleByViolation(violations[j]) # <<>>}})

RECURSIVE sumWeights(_)
sumWeights(rs) == IF rs = <<>> THEN 0 ELSE Head(rs).weight + sumWeights(Tail(rs))

\* Math.round(Math.max(0, Math.min(100, ((maxWeight - v) / maxWeight) * 100)) * 100) / 100,
\* in hundredths of a percent (Math.round rounds a half up)
scoreOf(maxWeight, weightedViolations) ==
  LET w == min(max(maxWeight - weightedViolations, 0), maxWeight)
  IN (2 * 10000 * w + maxWeight) \div (2 * maxWeight)

\* calculateNormalFormCompliance, lines 57-82
calculateNormalFormCompliance(normalForm, violations) ==
  LET normalFormRules == SelectSeq(rules, LAMBDA r : r.normalForm = normalForm)
      maxWeight == sumWeights(normalFormRules)
      weightedViolations == calculateWeightedViolations(violations, normalForm)
  IN [normalForm |-> normalForm,
      score |-> scoreOf(maxWeight, weightedViolations),
      totalRules |-> Len(normalFormRules),
      passedRules |-> max(0, Len(normalFormRules) - getUniqueRuleCount(violations, normalForm)),
      violations |-> violations,
      maxWeight |-> maxWeight,
      violatedWeight |-> weightedViolations,
      rulesEvaluated |-> Len(normalFormRules)]

\* calculateOverallScore, lines 166-183: the weights 0.5, 0.3, 0.2 in tenths
overallWeight1NF == 5
overallWeight2NF == 3
overallWeight3NF == 2

\* The weighted sum is computed in binary floating point.  When the exact sum
\* lies half way between two hundredths, the double that lines 176-180 produce
\* lies just below the half for these score triples (hundredths of a percent)
\* and Math.round takes it down; for every other triple that the seven rules
\* can produce the double is at or above the half and Math.round takes it up.
overallTiesBelowHalf ==
  { <<3333, 10000, 10000>>, <<5333, 6000, 10000>>, <<5333, 10000, 5000>>,
    <<5333, 10000, 10000>>, <<7333, 4000, 10000>>, <<7333, 6000, 5000>>,
    <<7333, 6000, 10000>>, <<7333, 10000, 0>>, <<7333, 10000, 5000>> }

\* calculateOverallScore, lines 166-183
calculateOverallScore(c1, c2, c3) ==
  LET total == c1.score * overallWeight1NF + c2.score * overallWeight2NF
                 + c3.score * overallWeight3NF
  IN IF total % 10 = 5 /\ <<c1.score, c2.score, c3.score>> \in overallTiesBelowHalf
       THEN total \div 10
       ELSE (total + 5) \div 10

\* generateSummary, lines 185-204
generateSummary(violations) ==
  LET allViolations == violations["1NF"] \o violations["2NF"] \o violations["3NF"]
  IN [totalViolations |-> Len(allViolations),
      criticalViolations |-> Len(SelectSeq(allViolations, LAMBDA v : v.severity = "ERROR")),
      warnings |-> Len(SelectSeq(allViolations, LAMBDA v : v.severity = "WARNING"))]

\* calculateCompliance, lines 14-31, over the violations of evaluateAllRules
complianceReport(violations) ==
  LET c1 == calculateNormalFormCompliance("1NF", violations["1NF"])
      c2 == calculateNormalFormCompliance("2NF", violations["2NF"])
      c3 == calculateNormalFormCompliance("3NF", violations["3NF"])
  IN [compliance |-> [nf \in {"1NF", "2NF", "3NF"} |->
                        IF nf = "1NF" THEN c1 ELSE IF nf = "2NF" THEN c2 ELSE c3],
      overallScore |-> calculateOverallScore(c1, c2, c3),
      summary |-> generateSummary(violations)]

(***************************************************************************)
(* RuleConflictResolver, ruleConflictResolver.ts.  The Map of groupByColumn *)
(* is the sequence of its entries in the order of insertion.               *)
(***************************************************************************)
strTableLevel == <<"t","a","b","l","e","-","l","e","v","e","l">>
strDash == <<"-">>

\* violation.column || 'table-level': undefined and '' are falsy
columnOrTableLevel(violation) ==
  IF violation.column = <<>> \/ violation.column[1] = <<>>
  THEN strTableLevel
  ELSE violation.column[1]

\* `${violation.table}-${violation.column || 'table-level'}`, line 35
groupKey(violation) == violation.table \o strDash \o columnOrTableLevel(violation)

\* lines 35-52: one violation of the loop of groupByColumn
addToGroups(columnMap, violation) ==
  LET key == groupKey(violation)
      withKey == IF \E i \in 1..Len(columnMap) : columnMap[i].key = key
                 THEN columnMap
                 ELSE Append(columnMap,
                             [key |-> key, table |-> violation.table,
                              column |-> columnOrTableLevel(violation),
                              errors |-> <<>>, warnings |-> <<>>])
  IN [i \in 1..Len(withKey) |->
        IF withKey[i].key # key THEN withKey[i]
        ELSE IF violation.severity = "ERROR"
             THEN [withKey[i] EXCEPT !.errors = Append(@, violation)]
             ELSE [withKey[i] EXCEPT !.warnings = Append(@, violation)]]

\* groupByColumn, lines 31-56
RECURSIVE groupByColumnFrom(_, _)
groupByColumnFrom(violations, columnMap) ==
  IF violations = <<>> THEN columnMap
  ELSE groupByColumnFrom(Tail(violations), addToGroups(columnMap, Head(violations)))

groupByColumn(violations) == groupByColumnFrom(violations, <<>>)

\* resolveColumnConflicts, lines 58-67
resolveColumnConflicts(group) ==
  IF Len(group.errors) > 0 THEN group.errors ELSE group.warnings

\* resolveConflicts, lines 17-29
resolveConflicts(violations) ==
  LET columnGroups == groupByColumn(violations)
  IN concat([g \in 1..Len(columnGroups) |-> resolveColumnConflicts(columnGroups[g])])

(***************************************************************************)
(* Schemas to score: one table, its columns drawn without repetition from  *)
(* a catalog, its key empty or made of its first columns.                  *)
(***************************************************************************)
nm_tags == <<"t","a","g","s">>
nm_labels == <<"l","a","b","e","l","s">>
nm_payload == <<"p","a","y","l","o","a","d">>
nm_item_list == <<"i","t","e","m","_","l","i","s","t">>
nm_order_id == <<"o","r","d","e","r","_","i","d">>
nm_order_total == <<"o","r","d","e","r","_","t","o","t","a","l">>
nm_email == <<"e","m","a","i","l">>
nm_json_docs == <<"j","s","o","n","_","d","o","c","s">>
nm_array_log == <<"a","r","r","a","y","_","l","o","g">>
ty_TEXT_ARRAY == <<"T","E","X","T","[","]">>
ty_INTEGER_ARRAY == <<"I","N","T","E","G","E","R","[","]">>
ty_JSONB == <<"J","S","O","N","B">>

Column(name, type, unique) ==
  [name |-> name, type |-> type, nullable |-> TRUE, primaryKey |-> FALSE,
   unique |-> unique, foreignKey |-> <<>>]

ScoreColumns == {Column(nm_id, ty_INTEGER, FALSE),
                 Column(nm_tags, ty_TEXT_ARRAY, FALSE),
                 Column(nm_labels, ty_INTEGER_ARRAY, FALSE),
                 Column(nm_payload, ty_JSONB, FALSE),
                 Column(nm_item_list, ty_INTEGER, FALSE),
                 Column(nm_order_id, ty_INTEGER, FALSE),
                 Column(nm_order_total, ty_INTEGER, FALSE),
                 Column(nm_email, ty_TEXT, TRUE)}

ScoreTableNames == {nm_users, nm_json_docs, nm_array_log}

\* the most columns of a table to score
MaxColumns == 2

ColumnLists ==
  {cs \in SeqsUpTo(ScoreColumns, MaxColumns) :
     \A i, j \in 1..Len(cs) : i # j => cs[i] # cs[j]}

\* the table with the first k columns as its key; a key column carries the
\* primaryKey flag, as a column declared inline does
ScoreTable(name, cs, k) ==
  [name |-> name,
   columns |-> [i \in 1..Len(cs) |-> IF i <= k THEN [cs[i] EXCEPT !.primaryKey = TRUE] ELSE cs[i]],
   primaryKeys |-> [i \in 1..k |-> cs[i].name],
   foreignKeys |-> <<>>,
   uniqueConstraints |-> <<>>]

\* tables with the key column id and MaxColumns further columns: a non-key
\* column then has other non-key columns beside it
KeyedSchemas ==
  {<<ScoreTable(n, <<Column(nm_id, ty_INTEGER, FALSE)>> \o cs, 1)>> :
     n \in ScoreTableNames,
     cs \in {l \in ColumnLists : Len(l) = MaxColumns /\ \A i \in 1..Len(l) : l[i].name # nm_id}}

nm_details == <<"d","e","t","a","i","l","s">>
nm_department_id == <<"d","e","p","a","r","t","m","e","n","t","_","i","d">>
nm_department_name == <<"d","e","p","a","r","t","m","e","n","t","_","n","a","m","e">>
nm_first_name == <<"f","i","r","s","t","_","n","a","m","e">>
nm_first_initial == <<"f","i","r","s","t","_","i","n","i","t","i","a","l">>
nm_description == <<"d","e","s","c","r","i","p","t","i","o","n">>
nm_total_amount == <<"t","o","t","a","l","_","a","m","o","u","n","t">>
nm_count_items == <<"c","o","u","n","t","_","i","t","e","m","s">>

\* tables chosen for what single rules say of their columns: an array
\* column whose name also suggests multi-value storage,
\* a department_name column next to a department_id column, and a composite
\* key (first_name, order_id) beside columns that take up a part of it,
\* and columns named as totals and counts
PatternTables ==
  {ScoreTable(nm_users, <<Column(nm_id, ty_INTEGER, FALSE),
                          Column(nm_details, ty_INTEGER_ARRAY, FALSE)>>, 1),
   ScoreTable(nm_users, <<Column(nm_id, ty_INTEGER, FALSE),
                          Column(nm_department_id, ty_INTEGER, FALSE),
                          Column(nm_department_name, ty_TEXT, FALSE)>>, 1),
   ScoreTable(nm_users, <<Column(nm_first_name, ty_TEXT, FALSE),
                          Column(nm_order_id, ty_INTEGER, FALSE),
                          Column(nm_first_initial, ty_TEXT, FALSE),
                          Column(nm_description, ty_TEXT, FALSE),
                          Column(nm_order_total, ty_INTEGER, FALSE)>>, 2),
   ScoreTable(nm_users, <<Column(nm_id, ty_INTEGER, FALSE),
                          Column(nm_total_amount, ty_INTEGER, FALSE),
                          Column(nm_count_items, ty_TEXT, FALSE)>>, 1)}

PatternSchemas == {<<t>> : t \in PatternTables}

ScoreSchemas ==
  UNION {{<<ScoreTable(n, cs, k)>> : k \in 0..Len(cs)} : n \in ScoreTableNames, cs \in ColumnLists}
  \cup KeyedSchemas \cup PatternSchemas

(***************************************************************************)
(* Violations to resolve: what the 1NF rules report for the columns of a   *)
(* few tables, among them quoted names that hold a hyphen.                 *)
(***************************************************************************)
nm_order == <<"o","r","d","e","r">>
nm_order_items == <<"o","r","d","e","r","-","i","t","e","m","s">>
nm_items_id == <<"i","t","e","m","s","-","i","d">>
nm_table_level == <<"t","a","b","l","e","-","l","e","v","e","l">>

namedTable(name) ==
  [name |-> name, columns |-> <<>>, primaryKeys |-> <<>>, foreignKeys |-> <<>>,
   uniqueConstraints |-> <<>>]

ResolveViolations ==
  { primaryKeyViolations(<<namedTable(nm_users)>>)[1],
    noRepeatingGroupsOf(namedTable(nm_users), Column(nm_table_level, ty_JSONB, FALSE))[1],
    noRepeatingGroupsOf(namedTable(nm_users), Column(nm_item_list, ty_INTEGER_ARRAY, FALSE))[1],
    atomicValuesOf(namedTable(nm_users), Column(nm_item_list, ty_INTEGER_ARRAY, FALSE))[1],
    noRepeatingGroupsOf(namedTable(nm_users), Column(nm_payload, ty_JSONB, FALSE))[1],
    noRepeatingGroupsOf(namedTable(nm_order_items), Column(nm_id, ty_INTEGER_ARRAY, FALSE))[1],
    noRepeatingGroupsOf(namedTable(nm_order), Column(nm_items_id, ty_JSONB, FALSE))[1] }

\* the most violations handed to resolveConflicts
MaxViolations == 3

ResolveInputs == SeqsUpTo(ResolveViolations, MaxViolations)

(***************************************************************************)
(* Texts to split: pieces joined by ";", some of which hold a ";" inside   *)
(* quotes or parentheses, a parenthesis inside quotes, or a stray ")".     *)
(***************************************************************************)
pc_a == <<"a">>
pc_spaced == <<" ","b","\n">>
pc_call == <<"f","(","x",";","y",")">>
pc_single == <<"'","p",";","q","'">>
pc_double == <<"\"","r",";"," ","s","\"">>
pc_quotedParen == <<"'","(","'">>
pc_close == <<"x",")">>

SplitPieces == {pc_a, pc_spaced, pc_call, pc_single, pc_double, pc_quotedParen, pc_close, <<>>}

\* the most pieces of a text to split
MaxPieces == 2

SplitInputs ==
  {join(ps, <<";">>) \o tl : ps \in SeqsUpTo(SplitPieces, MaxPieces), tl \in {<<>>, <<";">>}}

(***************************************************************************)
(* Extracted tables to analyse: four bodies whose scores differ, in user  *)
(* schemas and in system schemas, and tables that break the contract.      *)
(***************************************************************************)
nm_settings == <<"s","e","t","t","i","n","g","s">>

ExtractedColumn(name, type, pk) ==
  [name |-> name, type |-> type, nullable |-> ~pk, primaryKey |-> pk, unique |-> FALSE,
   foreignKey |-> <<>>]

keyOnId == [type |-> "primary_key", columns |-> <<nm_id>>, references |-> <<>>]

bodyUsers ==
  [tableName |-> nm_users, columns |-> <<ExtractedColumn(nm_id, ty_INTEGER, TRUE)>>,
   constraints |-> <<keyOnId>>]
bodySettings ==
  [tableName |-> nm_settings, columns |-> <<ExtractedColumn(nm_id, ty_INTEGER, FALSE)>>,
   constraints |-> <<>>]
bodyOrders ==
  [tableName |-> nm_orders,
   columns |-> <<ExtractedColumn(nm_id, ty_INTEGER, TRUE),
                 ExtractedColumn(nm_item_list, ty_INTEGER, FALSE)>>,
   constraints |-> <<keyOnId>>]
bodyOrderRefs ==
  [tableName |-> nm_Items,
   columns |-> <<ExtractedColumn(nm_id, ty_INTEGER, TRUE),
                 ExtractedColumn(nm_order_id, ty_INTEGER, FALSE)>>,
   constraints |-> <<keyOnId>>]
bodyArrayLog ==
  [tableName |-> nm_array_log, columns |-> <<ExtractedColumn(nm_tags, ty_TEXT_ARRAY, FALSE)>>,
   constraints |-> <<>>]

ExtractedBodies == {bodyUsers, bodySettings, bodyOrders, bodyOrderRefs, bodyArrayLog}

Extracted(schemaName, body) ==
  [schema |-> schemaName, tableName |-> body.tableName, columns |-> body.columns,
   constraints |-> body.constraints, source |-> "dump", createStatement |-> <<>>]

\* the most tables of an analysis input
MaxTables == 3

\* up to MaxTables tables of two bodies over two user schemas and a system
\* schema, and every body alone in a user schema, in the other system
\* schemas and without a schema
ExtractedInputs ==
  {[entry |-> "analyze", tables |-> ts] :
     ts \in SeqsUpTo({Extracted(sn, b) :
                        sn \in {strPublic, nm_sales, <<"p","g","_","c","a","t","a","l","o","g">>},
                        b \in {bodyUsers, bodySettings}}, MaxTables)}
  \cup {[entry |-> "analyze", tables |-> <<Extracted(sn, b)>>] :
          sn \in {strPublic, <<"p","g","_","t","o","a","s","t">>,
                  <<"i","n","f","o","r","m","a","t","i","o","n","_","s","c","h","e","m","a">>,
                  <<>>},
          b \in ExtractedBodies}

(***************************************************************************)
(* Regular SQL files whose CREATE TABLE statements name the schema of the  *)
(* table.                                                                  *)
(***************************************************************************)
nm_information_schema == <<"i","n","f","o","r","m","a","t","i","o","n","_","s","c","h","e","m","a">>
nm_pg_catalog == <<"p","g","_","c","a","t","a","l","o","g">>
tx_CreateCatalogSettings == <<"C","R","E","A","T","E"," ","T","A","B","L","E"," ","p","g","_","c","a","t","a","l","o","g",".","s","e","t","t","i","n","g","s"," ","(","i","d"," ","S","E","R","I","A","L"," ","P","R","I","M","A","R","Y"," ","K","E","Y",")",";">>
tx_CreateSalesOrders == <<"C","R","E","A","T","E"," ","T","A","B","L","E"," ","s","a","l","e","s",".","o","r","d","e","r","s"," ","(","i","d"," ","S","E","R","I","A","L",")",";">>
tx_CreateInformationItems == <<"C","R","E","A","T","E"," ","T","A","B","L","E"," ","i","n","f","o","r","m","a","t","i","o","n","_","s","c","h","e","m","a",".","I","t","e","m","s"," ","(","t","a","g","s"," ","T","E","X","T","[","]",")",";">>

QualifiedItems ==
  {[schema |-> strPublic, name |-> nm_users, text |-> tx_CreateUsers],
   [schema |-> nm_pg_catalog, name |-> nm_settings, text |-> tx_CreateCatalogSettings],
   [schema |-> nm_sales, name |-> nm_orders, text |-> tx_CreateSalesOrders],
   [schema |-> nm_information_schema, name |-> nm_Items, text |-> tx_CreateInformationItems]}

SqlSchemaInputs ==
  {[entry |-> "sql", items |-> items,
    sql |-> join([i \in 1..Len(items) |-> items[i].text], chNL)] :
     items \in {is \in SeqsUpTo(QualifiedItems, MaxItems) :
                  /\ is # <<>>
                  /\ \A i, j \in 1..Len(is) : i # j => is[i] # is[j]}}

(***************************************************************************)
(* State.                                                                  *)
(***************************************************************************)
VARIABLES
  ddl,          \* the DDL input behind sqlContent (what the text declares)
  sqlContent,   \* the argument of parse / validateSQL
  sqlPc,        \* the position in validateSQL: start, loop, parsed, done
  statements,   \* parse: the result of splitStatements
  stmtIdx,      \* parse: the index of the next statement
  tables,       \* parse: schema.tables
  validation,   \* validateSQL: [isValid, errors, warnings]
  dump,               \* the dump input behind dumpContent
  dumpContent,        \* the argument of parseDumpFile
  dumpPc,             \* the position: start, loop, done, canonical, analyzed
  lines,              \* parseTextDump / parseBinaryDump: dumpContent.split('\n')
  lineIdx,            \* the loop index i (0-based)
  currentTable,       \* ExtractedTable | null
  createStatement,
  braceCount,
  inCreateStatement,
  result,             \* the DumpParseResult
  canonicalTables,    \* analyzeExtractedSchema: buildCanonicalTable of each table
  legacy,             \* analyzeDumpFile: [threw, tables] of the parse of combinedSQL
  schema,        \* the argument of calculateCompliance: the tables in order
  scorePc,       \* the position in calculateCompliance: rules, scores, done
  ruleIdx,       \* evaluateAllRules: the index of the next rule
  violations,    \* evaluateAllRules: result, the violations of each normal form
  report,        \* the AnalysisReport: compliance, overallScore, summary
  resolveInput,        \* the argument of resolveConflicts
  resolvePc,           \* the position in resolveConflicts: start, groups, done
  columnGroups,        \* resolveConflicts: the result of groupByColumn
  groupIdx,            \* resolveConflicts: the index of the next group
  resolvedViolations,  \* resolveConflicts: resolvedViolations
  splitSql,      \* the argument of splitStatements
  splitPc,       \* the position in splitStatements: scan, done
  splitIdx,      \* the loop index i (0-based)
  scan,          \* statements (out), current, inQuotes, quoteChar, parenLevel
  splitOut,      \* the returned statements
  multiInput,      \* the argument of analyze / analyzeSQLWithSchemas
  multiPc,         \* the position in it: start, schemas, done, threw
  tablesBySchema,  \* the Map tablesBySchema, in insertion order
  schemaIdx,       \* the entries of tablesBySchema already iterated
  schemaResults,   \* schemaResults
  totalTables,     \* totalTables
  totalScore,      \* totalScore
  analysis,        \* the DatabaseAnalysisResult returned
  registry,        \* the keys of this.rules of the analyzer's ComplianceCalculator
  calls            \* the analyzeSQL calls returned so far: [sql, report]

sqlVars == <<ddl, sqlContent, sqlPc, statements, stmtIdx, tables, validation>>

dumpVars == <<dump, dumpContent, dumpPc, lines, lineIdx, currentTable, createStatement,
              braceCount, inCreateStatement, result, canonicalTables, legacy>>

scoreVars == <<schema, scorePc, ruleIdx, violations, report>>

resolveVars == <<resolveInput, resolvePc, columnGroups, groupIdx, resolvedViolations>>

splitVars == <<splitSql, splitPc, splitIdx, scan, splitOut>>

multiVars == <<multiInput, multiPc, tablesBySchema, schemaIdx, schemaResults, totalTables,
               totalScore, analysis>>

callVars == <<registry, calls>>

vars == <<sqlVars, dumpVars, scoreVars, resolveVars, splitVars, multiVars, callVars>>

NoValidation == [isValid |-> FALSE, errors |-> <<>>, warnings |-> <<>>]

SqlIdle ==
  /\ ddl = [shape |-> "none", table |-> [name |-> <<>>, quoted |-> FALSE], clauses |-> <<>>]
  /\ sqlContent = <<>>
  /\ sqlPc = "idle"
  /\ statements = <<>>
  /\ stmtIdx = 0
  /\ tables = <<>>
  /\ validation = NoValidation

\* the DumpParseResult of lines 24-33
newResult(content) ==
  [success |-> FALSE, tables |-> <<>>, errors |-> <<>>,
   metadata |-> [totalSize |-> Len(content), extractedSize |-> 0, detectedFormat |-> "text"]]

NoLegacy == [threw |-> FALSE, tables |-> <<>>]

DumpIdle ==
  /\ dump = [format |-> "none", stmts |-> <<>>, trailer |-> FALSE, unclosed |-> FALSE]
  /\ dumpContent = <<>>
  /\ dumpPc = "idle"
  /\ lines = <<>>
  /\ lineIdx = 0
  /\ currentTable = <<>>
  /\ createStatement = <<>>
  /\ braceCount = 0
  /\ inCreateStatement = FALSE
  /\ result = newResult(<<>>)
  /\ canonicalTables = <<>>
  /\ legacy = NoLegacy

NormalForms == {"1NF", "2NF", "3NF"}

NoViolations == [nf \in NormalForms |-> <<>>]

ScoreIdle ==
  /\ schema = <<>>
  /\ scorePc = "idle"
  /\ ruleIdx = 0
  /\ violations = NoViolations
  /\ report = complianceReport(NoViolations)

ResolveIdle ==
  /\ resolveInput = <<>>
  /\ resolvePc = "idle"
  /\ columnGroups = <<>>
  /\ groupIdx = 0
  /\ resolvedViolations = <<>>

SplitIdle ==
  /\ splitSql = <<>>
  /\ splitPc = "idle"
  /\ splitIdx = 0
  /\ scan = scanInit
  /\ splitOut = <<>>

\* a quotient of the floating-point arithmetic, kept as the fraction num/den
fraction(n, d) == [num |-> n, den |-> d]

NoAnalysis == [totalSchemas |-> 0, totalTables |-> 0, overallScore |-> fraction(0, 1),
               schemas |-> <<>>]

MultiIdle ==
  /\ multiInput = [entry |-> "none"]
  /\ multiPc = "idle"
  /\ tablesBySchema = <<>>
  /\ schemaIdx = 0
  /\ schemaResults = <<>>
  /\ totalTables = 0
  /\ totalScore = fraction(0, 1)
  /\ analysis = NoAnalysis

CallIdle ==
  /\ registry = {}
  /\ calls = <<>>

(***************************************************************************)
(* validateSQL(sqlContent), with parse unfolded into its loop.             *)
(***************************************************************************)
Init ==
  /\ ddl \in DdlInputs
  /\ sqlContent = Render(ddl)
  /\ sqlPc = "start"
  /\ statements = <<>>
  /\ stmtIdx = 0
  /\ tables = <<>>
  /\ validation = NoValidation
  /\ DumpIdle
  /\ ScoreIdle
  /\ ResolveIdle
  /\ SplitIdle
  /\ MultiIdle
  /\ CallIdle

otherThanSql == <<dumpVars, scoreVars, resolveVars, splitVars, multiVars, callVars>>

\* parse, line 8
SplitStatements ==
  /\ sqlPc = "start"
  /\ statements' = splitStatements(sqlContent)
  /\ stmtIdx' = 1
  /\ sqlPc' = "loop"
  /\ UNCHANGED <<ddl, sqlContent, tables, validation>>
  /\ UNCHANGED otherThanSql

\* parse, lines 10-20: one statement
ParseStatement ==
  /\ sqlPc = "loop"
  /\ stmtIdx <= Len(statements)
  /\ tables' = parseStatement(statements[stmtIdx], tables)
  /\ stmtIdx' = stmtIdx + 1
  /\ UNCHANGED <<ddl, sqlContent, sqlPc, statements, validation>>
  /\ UNCHANGED otherThanSql

\* parse, line 25
ParseReturn ==
  /\ sqlPc = "loop"
  /\ stmtIdx > Len(statements)
  /\ sqlPc' = "parsed"
  /\ UNCHANGED <<ddl, sqlContent, statements, stmtIdx, tables, validation>>
  /\ UNCHANGED otherThanSql

\* the warnings of validateSQL, lines 747-759, in order
RECURSIVE tableWarnings(_)
tableWarnings(ts) ==
  IF ts = <<>> THEN <<>>
  ELSE (IF Head(ts).primaryKeys = <<>>
        THEN <<[warning |-> "has no primary key", table |-> Head(ts).name]>> ELSE <<>>)
       \o (IF Head(ts).columns = <<>>
           THEN <<[warning |-> "has no columns defined", table |-> Head(ts).name]>> ELSE <<>>)
       \o tableWarnings(Tail(ts))

\* validateSQL, lines 741-768, after parse returned; threw is whether parse
\* threw, which makes the catch block push the error message
validateSQL(threw, ts) ==
  LET errors == IF threw THEN <<"SQL parsing failed">> ELSE <<>>
      warnings == IF threw THEN <<>>
                  ELSE (IF ts = <<>>
                        THEN <<[warning |-> "No CREATE TABLE statements found in the SQL file",
                                table |-> <<>>]>>
                        ELSE <<>>) \o tableWarnings(ts)
  IN [isValid |-> errors = <<>>, errors |-> errors, warnings |-> warnings]

\* validateSQL after parse returned: parse has no step that throws, so the
\* call of line 742 returns and the catch block is not entered
ValidateSQL ==
  /\ sqlPc = "parsed"
  /\ validation' = validateSQL(FALSE, tables)
  /\ sqlPc' = "done"
  /\ UNCHANGED <<ddl, sqlContent, statements, stmtIdx, tables>>
  /\ UNCHANGED otherThanSql

Next == SplitStatements \/ ParseStatement \/ ParseReturn \/ ValidateSQL

Spec == Init /\ [][Next]_vars

\* validateSQL on a script
InitScript ==
  /\ ddl \in ScriptInputs
  /\ sqlContent = RenderScript(ddl)
  /\ sqlPc = "start"
  /\ statements = <<>>
  /\ stmtIdx = 0
  /\ tables = <<>>
  /\ validation = NoValidation
  /\ DumpIdle
  /\ ScoreIdle
  /\ ResolveIdle
  /\ SplitIdle
  /\ MultiIdle
  /\ CallIdle

SpecScript == InitScript /\ [][Next]_vars

(***************************************************************************)
(* parseDumpFile(dumpContent), one action per line of the loop, then the   *)
(* two analysis paths over its result.                                     *)
(***************************************************************************)
otherThanDump == <<sqlVars, scoreVars, resolveVars, splitVars, multiVars, callVars>>

InitDump ==
  /\ dump \in DumpInputs
  /\ dumpContent = RenderDump(dump)
  /\ dumpPc = "start"
  /\ lines = <<>>
  /\ lineIdx = 0
  /\ currentTable = <<>>
  /\ createStatement = <<>>
  /\ braceCount = 0
  /\ inCreateStatement = FALSE
  /\ result = newResult(dumpContent)
  /\ canonicalTables = <<>>
  /\ legacy = NoLegacy
  /\ SqlIdle
  /\ ScoreIdle
  /\ ResolveIdle
  /\ SplitIdle
  /\ MultiIdle
  /\ CallIdle

\* parseDumpFile, lines 24-43, and lines 57-61 / 143-147
ParseDumpFile ==
  /\ dumpPc = "start"
  /\ result' = [newResult(dumpContent) EXCEPT !.metadata.detectedFormat =
                  IF startsWith(dumpContent, strPGDMP) THEN "binary" ELSE "text"]
  /\ lines' = splitChar(dumpContent, "\n")
  /\ lineIdx' = 0
  /\ currentTable' = <<>>
  /\ createStatement' = <<>>
  /\ braceCount' = 0
  /\ inCreateStatement' = FALSE
  /\ dumpPc' = "loop"
  /\ UNCHANGED <<dump, dumpContent, canonicalTables, legacy>>
  /\ UNCHANGED otherThanDump

\* const line = lines[i].trim()
currentLine == trim(lines[lineIdx + 1])

InLoop == dumpPc = "loop" /\ lineIdx < Len(lines)

\* lines 67-69 / 153-155
SkipLine ==
  /\ InLoop
  /\ isSkippedLine(currentLine)
  /\ lineIdx' = lineIdx + 1
  /\ UNCHANGED <<dump, dumpContent, dumpPc, lines, currentTable, createStatement,
                 braceCount, inCreateStatement, result, canonicalTables, legacy>>
  /\ UNCHANGED otherThanDump

\* lines 72-96 / 158-197
CreateTableLine ==
  /\ InLoop
  /\ ~isSkippedLine(currentLine)
  /\ isCreateTableLine(result.metadata.detectedFormat, currentLine)
  /\ result' = IF currentTable # <<>>
               THEN [result EXCEPT !.errors =
                       Append(@, [msg |-> "Unclosed CREATE TABLE at line", at |-> <<lineIdx>>])]
               ELSE result
  /\ currentTable' = IF result.metadata.detectedFormat = "binary"
                     THEN <<extractedTable(binaryCreateTableMatch(currentLine)[1])>>
                     ELSE textCurrentTable(currentLine, currentTable)
  /\ createStatement' = currentLine
  /\ braceCount' = braceDelta(currentLine)
  /\ inCreateStatement' = TRUE
  /\ lineIdx' = lineIdx + 1
  /\ UNCHANGED <<dump, dumpContent, dumpPc, lines, canonicalTables, legacy>>
  /\ UNCHANGED otherThanDump

\* lines 99-121 / 200-222; the throw of line 111 / 212 is caught at line 44
ContinueLine ==
  /\ InLoop
  /\ ~isSkippedLine(currentLine)
  /\ ~isCreateTableLine(result.metadata.detectedFormat, currentLine)
  /\ inCreateStatement /\ currentTable # <<>>
  /\ LET cs == createStatement \o chNL \o currentLine
         bc == braceCount + braceDelta(currentLine)
     IN IF includes(currentLine, <<";">>) /\ bc <= 0
        THEN IF currentTable[1].schema = <<>> \/ currentTable[1].tableName = <<>>
             THEN /\ result' = [result EXCEPT !.errors =
                                  Append(@, [msg |-> "Parser error: Invalid ExtractedTable",
                                             at |-> <<>>])]
                  /\ dumpPc' = "done"
                  /\ createStatement' = cs
                  /\ braceCount' = bc
                  /\ UNCHANGED <<currentTable, inCreateStatement, lineIdx>>
             ELSE /\ result' = [result EXCEPT !.tables =
                                  Append(@, [currentTable[1] EXCEPT !.createStatement = trim(cs)])]
                  /\ currentTable' = <<>>
                  /\ createStatement' = <<>>
                  /\ braceCount' = 0
                  /\ inCreateStatement' = FALSE
                  /\ lineIdx' = lineIdx + 1
                  /\ UNCHANGED dumpPc
        ELSE /\ createStatement' = cs
             /\ braceCount' = bc
             /\ lineIdx' = lineIdx + 1
             /\ UNCHANGED <<dumpPc, currentTable, inCreateStatement, result>>
  /\ UNCHANGED <<dump, dumpContent, lines, canonicalTables, legacy>>
  /\ UNCHANGED otherThanDump

\* a line that is neither skipped, nor a CREATE TABLE line, nor collected
OtherLine ==
  /\ InLoop
  /\ ~isSkippedLine(currentLine)
  /\ ~isCreateTableLine(result.metadata.detectedFormat, currentLine)
  /\ ~(inCreateStatement /\ currentTable # <<>>)
  /\ lineIdx' = lineIdx + 1
  /\ UNCHANGED <<dump, dumpContent, dumpPc, lines, currentTable, createStatement,
                 braceCount, inCreateStatement, result, canonicalTables, legacy>>
  /\ UNCHANGED otherThanDump

RECURSIVE sumLengths(_)
sumLengths(ts) ==
  IF ts = <<>> THEN 0 ELSE Len(Head(ts).createStatement) + sumLengths(Tail(ts))

\* lines 124-135 / 225-236
FinishDump ==
  /\ dumpPc = "loop"
  /\ lineIdx = Len(lines)
  /\ LET errors == IF currentTable # <<>>
                   THEN Append(result.errors,
                               [msg |-> "Unclosed CREATE TABLE at end of file", at |-> <<>>])
                   ELSE result.errors
     IN result' = [result EXCEPT !.errors = errors,
                                 !.metadata.extractedSize = sumLengths(result.tables),
                                 !.success = (result.tables # <<>> \/ errors = <<>>)]
  /\ dumpPc' = "done"
  /\ UNCHANGED <<dump, dumpContent, lines, lineIdx, currentTable, createStatement,
                 braceCount, inCreateStatement, canonicalTables, legacy>>
  /\ UNCHANGED otherThanDump

isPrimaryKeyDef(c) == c.type = "primary_key"
isForeignKeyDef(c) == c.type = "foreign_key"
isUniqueDef(c) == c.type = "unique"

RECURSIVE flatColumns(_)
flatColumns(cs) == IF cs = <<>> THEN <<>> ELSE Head(cs).columns \o flatColumns(Tail(cs))

\* the reduce of lines 515-525: acc[col.name] = {...}
RECURSIVE canonicalColumns(_, _)
canonicalColumns(cols, acc) ==
  IF cols = <<>> THEN acc
  ELSE canonicalColumns(Tail(cols),
         setColumn(acc, [name |-> Head(cols).name, type |-> Head(cols).type,
                         nullable |-> Head(cols).nullable,
                         primaryKey |-> Head(cols).primaryKey,
                         unique |-> Head(cols).unique,
                         foreignKey |-> Head(cols).foreignKey]))

\* buildCanonicalTable, lines 511-534
buildCanonicalTable(extracted) ==
  LET pks == SelectSeq(extracted.constraints, isPrimaryKeyDef)
      fks == SelectSeq(extracted.constraints, isForeignKeyDef)
      uqs == SelectSeq(extracted.constraints, isUniqueDef)
  IN [name |-> extracted.tableName,
      schemaName |-> extracted.schema,
      columns |-> canonicalColumns(extracted.columns, [columns |-> <<>>]).columns,
      primaryKeys |-> flatColumns(pks),
      foreignKeys |-> [i \in 1..Len(fks) |->
                         [column |-> fks[i].columns[1],
                          referencesTable |-> fks[i].references.table,
                          referencesColumn |-> fks[i].references.columns[1]]],
      uniqueConstraints |-> [i \in 1..Len(uqs) |-> uqs[i].columns]]

\* analyzeExtractedSchema, lines 551-553: the canonical table of each
\* extracted table
AnalyzeExtracted ==
  /\ dumpPc = "done"
  /\ canonicalTables' = [i \in 1..Len(result.tables) |-> buildCanonicalTable(result.tables[i])]
  /\ dumpPc' = "canonical"
  /\ UNCHANGED <<dump, dumpContent, lines, lineIdx, currentTable, createStatement,
                 braceCount, inCreateStatement, result, legacy>>
  /\ UNCHANGED otherThanDump

\* dumpResult.tables.map(table => table.createStatement).join('\n\n')
combinedSQL(ts) == join([i \in 1..Len(ts) |-> ts[i].createStatement], <<"\n", "\n">>)

\* analyzeDumpFile, lines 679-687, over the result of parseDumpFile: the
\* throw of line 682, or the tables analyzeSQL parses from combinedSQL
AnalyzeDumpFile ==
  /\ dumpPc = "canonical"
  /\ legacy' = IF ~result.success THEN [threw |-> TRUE, tables |-> <<>>]
               ELSE [threw |-> FALSE, tables |-> parse(combinedSQL(result.tables)).tables]
  /\ dumpPc' = "analyzed"
  /\ UNCHANGED <<dump, dumpContent, lines, lineIdx, currentTable, createStatement,
                 braceCount, inCreateStatement, result, canonicalTables>>
  /\ UNCHANGED otherThanDump

NextDump ==
  \/ ParseDumpFile
  \/ SkipLine
  \/ CreateTableLine
  \/ ContinueLine
  \/ OtherLine
  \/ FinishDump
  \/ AnalyzeExtracted
  \/ AnalyzeDumpFile

SpecDump == InitDump /\ [][NextDump]_vars

(***************************************************************************)
(* calculateCompliance(schema), with evaluateAllRules unfolded into its    *)
(* loop over the rules.                                                    *)
(***************************************************************************)
otherThanScore == <<sqlVars, dumpVars, resolveVars, splitVars, multiVars, callVars>>

InitScore ==
  /\ schema \in ScoreSchemas
  /\ scorePc = "rules"
  /\ ruleIdx = 1
  /\ violations = NoViolations
  /\ report = complianceReport(NoViolations)
  /\ SqlIdle
  /\ DumpIdle
  /\ ResolveIdle
  /\ SplitIdle
  /\ MultiIdle
  /\ CallIdle

\* the loop body without the try/catch of lines 46-51: the throw leaves
\* evaluateAllRules and calculateCompliance
EvaluateRuleUncaught ==
  /\ scorePc = "rules"
  /\ ruleIdx <= Len(rules)
  /\ LET ruleResult == evaluate(rules[ruleIdx], schema)
     IN /\ violations' = IF ruleResult.threw THEN violations
                         ELSE [violations EXCEPT ![rules[ruleIdx].normalForm] =
                                 @ \o ruleResult.violations]
        /\ scorePc' = IF ruleResult.threw THEN "threw" ELSE scorePc
  /\ ruleIdx' = ruleIdx + 1
  /\ UNCHANGED <<schema, report>>
  /\ UNCHANGED otherThanScore

\* evaluateAllRules, lines 45-52: one rule; a throw is caught and logged
EvaluateRule ==
  /\ scorePc = "rules"
  /\ ruleIdx <= Len(rules)
  /\ LET ruleResult == evaluate(rules[ruleIdx], schema)
     IN violations' = IF ruleResult.threw THEN violations
                      ELSE [violations EXCEPT ![rules[ruleIdx].normalForm] =
                              @ \o ruleResult.violations]
  /\ ruleIdx' = ruleIdx + 1
  /\ UNCHANGED <<schema, scorePc, report>>
  /\ UNCHANGED otherThanScore

\* calculateCompliance, lines 14-31
CalculateCompliance ==
  /\ scorePc = "rules"
  /\ ruleIdx > Len(rules)
  /\ report' = complianceReport(violations)
  /\ scorePc' = "done"
  /\ UNCHANGED <<schema, ruleIdx, violations>>
  /\ UNCHANGED otherThanScore

NextScore == EvaluateRule \/ CalculateCompliance

SpecScore == InitScore /\ [][NextScore]_vars

(***************************************************************************)
(* resolveConflicts(violations), with its loop over the groups unfolded.   *)
(***************************************************************************)
otherThanResolve == <<sqlVars, dumpVars, scoreVars, splitVars, multiVars, callVars>>

InitResolve ==
  /\ resolveInput \in ResolveInputs
  /\ resolvePc = "start"
  /\ columnGroups = <<>>
  /\ groupIdx = 0
  /\ resolvedViolations = <<>>
  /\ SqlIdle
  /\ DumpIdle
  /\ ScoreIdle
  /\ SplitIdle
  /\ MultiIdle
  /\ CallIdle

\* lines 19-21
GroupByColumn ==
  /\ resolvePc = "start"
  /\ columnGroups' = groupByColumn(resolveInput)
  /\ groupIdx' = 1
  /\ resolvedViolations' = <<>>
  /\ resolvePc' = "groups"
  /\ UNCHANGED resolveInput
  /\ UNCHANGED otherThanResolve

\* lines 23-26: one group
ResolveGroup ==
  /\ resolvePc = "groups"
  /\ groupIdx <= Len(columnGroups)
  /\ resolvedViolations' = resolvedViolations \o resolveColumnConflicts(columnGroups[groupIdx])
  /\ groupIdx' = groupIdx + 1
  /\ UNCHANGED <<resolveInput, resolvePc, columnGroups>>
  /\ UNCHANGED otherThanResolve

\* line 28
ResolveReturn ==
  /\ resolvePc = "groups"
  /\ groupIdx > Len(columnGroups)
  /\ resolvePc' = "done"
  /\ UNCHANGED <<resolveInput, columnGroups, groupIdx, resolvedViolations>>
  /\ UNCHANGED otherThanResolve

NextResolve == GroupByColumn \/ ResolveGroup \/ ResolveReturn

SpecResolve == InitResolve /\ [][NextResolve]_vars

(***************************************************************************)
(* splitStatements(sql), one action per character of its loop.             *)
(***************************************************************************)
otherThanSplit == <<sqlVars, dumpVars, scoreVars, resolveVars, multiVars, callVars>>

InitSplit ==
  /\ splitSql \in SplitInputs
  /\ splitPc = "scan"
  /\ splitIdx = 0
  /\ scan = scanInit
  /\ splitOut = <<>>
  /\ SqlIdle
  /\ DumpIdle
  /\ ScoreIdle
  /\ ResolveIdle
  /\ MultiIdle
  /\ CallIdle

\* lines 35-55: one character
ScanChar ==
  /\ splitPc = "scan"
  /\ splitIdx < Len(splitSql)
  /\ scan' = scanStep(scan, splitSql[splitIdx + 1], ";")
  /\ splitIdx' = splitIdx + 1
  /\ UNCHANGED <<splitSql, splitPc, splitOut>>
  /\ UNCHANGED otherThanSplit

\* lines 57-61
ScanReturn ==
  /\ splitPc = "scan"
  /\ splitIdx = Len(splitSql)
  /\ splitOut' = IF trim(scan.cur) # <<>> THEN Append(scan.out, trim(scan.cur)) ELSE scan.out
  /\ splitPc' = "done"
  /\ UNCHANGED <<splitSql, splitIdx, scan>>
  /\ UNCHANGED otherThanSplit

NextSplit == ScanChar \/ ScanReturn

SpecSplit == InitSplit /\ [][NextSplit]_vars

(***************************************************************************)
(* DatabaseAnalyzer.analyze(input): analyzeExtractedTables, one action per *)
(* schema of its loop.  Scores are in hundredths of a percent; the means,  *)
(* which the code computes as floating-point quotients, are fractions.     *)
(***************************************************************************)
fracPlus(a, b) == fraction(a.num * b.den + b.num * a.den, a.den * b.den)
fracOver(a, n) == fraction(a.num, a.den * n)
fracEq(a, b) == a.num * b.den = b.num * a.den
fracAtLeast(a, k) == a.num >= k * a.den

\* evaluateAllRules, lines 34-55, from rule i on
RECURSIVE evaluateRulesFrom(_, _, _)
evaluateRulesFrom(ts, i, acc) ==
  IF i > Len(rules) THEN acc
  ELSE LET ruleResult == evaluate(rules[i], ts)
       IN evaluateRulesFrom(ts, i + 1,
            IF ruleResult.threw THEN acc
            ELSE [acc EXCEPT ![rules[i].normalForm] = @ \o ruleResult.violations])

evaluateAllRules(ts) == evaluateRulesFrom(ts, 1, NoViolations)

\* calculateCompliance, lines 11-32
calculateCompliance(ts) == complianceReport(evaluateAllRules(ts))

str_pg_catalog == <<"p","g","_","c","a","t","a","l","o","g">>
str_information_schema == <<"i","n","f","o","r","m","a","t","i","o","n","_","s","c","h","e","m","a">>
str_pg_toast == <<"p","g","_","t","o","a","s","t">>

\* isSystemSchema, lines 623-626
isSystemSchema(schemaName) ==
  schemaName \in {str_pg_catalog, str_information_schema, str_pg_toast}

\* the thresholds of getSchemaStatus
scoreGood == 9000
scoreNeedsAttention == 7000
\* the score 100 of the normalization scores
scoreFull == 10000

\* the status from the violation count alone
getSchemaStatusByViolations(score, vs) ==
  IF vs = <<>> THEN "PERFECT" ELSE "GOOD"

\* getSchemaStatus, lines 613-618
getSchemaStatus(score, vs) ==
  IF vs = <<>> THEN "PERFECT"
  ELSE IF fracAtLeast(score, scoreGood) THEN "GOOD"
  ELSE IF fracAtLeast(score, scoreNeedsAttention) THEN "NEEDS_ATTENTION"
  ELSE "CRITICAL"

\* lines 562-582 for one table: the violations of its report in the
\* NormalizationViolation format, 1NF first
normalizationViolations(rep, tableName) ==
  concat([k \in 1..3 |->
    LET nf == <<"1NF", "2NF", "3NF">>[k]
        vs == rep.compliance[nf].violations
    IN [i \in 1..Len(vs) |->
          [normalForm |-> nf, table |-> tableName, column |-> vs[i].column,
           severity |-> vs[i].severity, message |-> vs[i].message,
           confidence |-> vs[i].confidence]]])

\* lines 543-547 and 585-591: the normalization entry of a normal form
normalizationOf(reports, nf) ==
  LET violatedTables == Cardinality({i \in 1..Len(reports) :
                                       reports[i].compliance[nf].violations # <<>>})
  IN [score |-> IF violatedTables = 0 THEN fraction(scoreFull, 1)
                ELSE fraction(scoreFull * Len(reports) - violatedTables * scoreFull,
                              Len(reports)),
      violatedTables |-> violatedTables,
      totalTables |-> Len(reports)]

\* tableScores.reduce((a, b) => a + b, 0)
RECURSIVE sumScores(_)
sumScores(reports) ==
  IF reports = <<>> THEN 0 ELSE Head(reports).overallScore + sumScores(Tail(reports))

\* lines 597-607: the result of a schema from its scores and violations
schemaResultOf(schemaName, tableCount, normalization, vs, schemaScore) ==
  [schemaName |-> schemaName,
   tableCount |-> tableCount,
   normalization |-> normalization,
   violations |-> vs,
   overallScore |-> schemaScore,
   status |-> getSchemaStatus(schemaScore, vs)]

\* lines 540-547 and 585-607, over the reports of the tables
schemaResult(schemaName, reports, names) ==
  schemaResultOf(schemaName, Len(reports),
    [nf \in NormalForms |-> normalizationOf(reports, nf)],
    concat([i \in 1..Len(reports) |-> normalizationViolations(reports[i], names[i])]),
    IF Len(reports) > 0 THEN fracOver(fraction(sumScores(reports), 1), Len(reports))
    ELSE fraction(0, 1))

\* analyzeExtractedSchema, lines 539-608
analyzeExtractedSchema(schemaName, extractedTables) ==
  schemaResult(schemaName,
    [i \in 1..Len(extractedTables) |->
       calculateCompliance(<<buildCanonicalTable(extractedTables[i])>>)],
    [i \in 1..Len(extractedTables) |-> extractedTables[i].tableName])

\* lines 475-478: the table added to the Map
addToSchema(bySchema, schemaName, table) ==
  IF \E i \in 1..Len(bySchema) : bySchema[i].schemaName = schemaName
  THEN [i \in 1..Len(bySchema) |->
          IF bySchema[i].schemaName = schemaName
          THEN [bySchema[i] EXCEPT !.tables = Append(@, table)] ELSE bySchema[i]]
  ELSE Append(bySchema, [schemaName |-> schemaName, tables |-> <<table>>])

\* the forEach of lines 468-479 without its check
RECURSIVE groupExtracted(_, _)
groupExtracted(ets, bySchema) ==
  IF ets = <<>> THEN bySchema
  ELSE groupExtracted(Tail(ets), addToSchema(bySchema, Head(ets).schema, Head(ets)))

\* line 470: !table.schema || !table.tableName
invalidExtracted(et) == et.schema = <<>> \/ et.tableName = <<>>

otherThanMulti == <<sqlVars, dumpVars, scoreVars, resolveVars, splitVars, callVars>>

InitMulti ==
  /\ multiInput \in ExtractedInputs
  /\ multiPc = "start"
  /\ tablesBySchema = <<>>
  /\ schemaIdx = 0
  /\ schemaResults = <<>>
  /\ totalTables = 0
  /\ totalScore = fraction(0, 1)
  /\ analysis = NoAnalysis
  /\ SqlIdle
  /\ DumpIdle
  /\ ScoreIdle
  /\ ResolveIdle
  /\ SplitIdle
  /\ CallIdle

\* analyzeExtractedTables, lines 466-483: the throw of line 471, or the Map
GroupExtractedTables ==
  /\ multiPc = "start"
  /\ multiInput.entry = "analyze"
  /\ IF \E i \in 1..Len(multiInput.tables) : invalidExtracted(multiInput.tables[i])
     THEN multiPc' = "threw" /\ UNCHANGED tablesBySchema
     ELSE /\ tablesBySchema' = groupExtracted(multiInput.tables, <<>>)
          /\ multiPc' = "schemas"
  /\ UNCHANGED <<multiInput, schemaIdx, schemaResults, totalTables, totalScore, analysis>>
  /\ UNCHANGED otherThanMulti

\* lines 491-494 (and 365-368): the result of a schema added to the totals
addSchemaResult(schemaResult_, tableCount) ==
  /\ schemaResults' = Append(schemaResults, schemaResult_)
  /\ totalTables' = totalTables + tableCount
  /\ totalScore' = fracPlus(totalScore, schemaResult_.overallScore)

\* lines 485-495: one schema of the loop
AnalyzeExtractedSchema ==
  /\ multiPc = "schemas"
  /\ multiInput.entry = "analyze"
  /\ schemaIdx < Len(tablesBySchema)
  /\ schemaIdx' = schemaIdx + 1
  /\ IF isSystemSchema(tablesBySchema[schemaIdx + 1].schemaName)
     THEN UNCHANGED <<schemaResults, totalTables, totalScore>>
     ELSE addSchemaResult(analyzeExtractedSchema(tablesBySchema[schemaIdx + 1].schemaName,
                                                 tablesBySchema[schemaIdx + 1].tables),
                          Len(tablesBySchema[schemaIdx + 1].tables))
  /\ UNCHANGED <<multiInput, multiPc, tablesBySchema, analysis>>
  /\ UNCHANGED otherThanMulti

\* lines 497-505 with the mean weighted by the tables of each schema
ReturnAnalysisWeighted ==
  /\ multiPc = "schemas"
  /\ schemaIdx = Len(tablesBySchema)
  /\ analysis' =
       [totalSchemas |-> Len(schemaResults),
        totalTables |-> totalTables,
        overallScore |->
          IF totalTables > 0
          THEN fraction(sumScores(concat([i \in 1..Len(tablesBySchema) |->
                   IF isSystemSchema(tablesBySchema[i].schemaName) THEN <<>>
                   ELSE [k \in 1..Len(tablesBySchema[i].tables) |->
                           calculateCompliance(<<buildCanonicalTable(tablesBySchema[i].tables[k])>>)]])),
                        totalTables)
          ELSE fraction(0, 1),
        schemas |-> schemaResults]
  /\ multiPc' = "done"
  /\ UNCHANGED <<multiInput, tablesBySchema, schemaIdx, schemaResults, totalTables, totalScore>>
  /\ UNCHANGED otherThanMulti

\* lines 497-505 (and 369-378)
ReturnAnalysis ==
  /\ multiPc = "schemas"
  /\ schemaIdx = Len(tablesBySchema)
  /\ analysis' =
       [totalSchemas |-> Len(schemaResults),
        totalTables |-> totalTables,
        overallScore |-> IF Len(schemaResults) > 0
                         THEN fracOver(totalScore, Len(schemaResults))
                         ELSE fraction(0, 1),
        schemas |-> schemaResults]
  /\ multiPc' = "done"
  /\ UNCHANGED <<multiInput, tablesBySchema, schemaIdx, schemaResults, totalTables, totalScore>>
  /\ UNCHANGED otherThanMulti

NextMulti == GroupExtractedTables \/ AnalyzeExtractedSchema \/ ReturnAnalysis

SpecMulti == InitMulti /\ [][NextMulti]_vars

(***************************************************************************)
(* DatabaseAnalyzer.analyzeSQLWithSchemas(sqlContent) on a regular SQL     *)
(* file: parse, then analyzeSchemas, one action per schema of its loop.    *)
(***************************************************************************)
\* table.schemaName || 'public'
schemaNameOf(table) ==
  IF "schemaName" \in DOMAIN table /\ table.schemaName # <<>> THEN table.schemaName
  ELSE strPublic

\* analyzeSchemas, lines 340-357: the tables grouped by schema, without
\* those of the system schemas
RECURSIVE groupParsed(_, _)
groupParsed(ts, bySchema) ==
  IF ts = <<>> THEN bySchema
  ELSE groupParsed(Tail(ts),
         IF isSystemSchema(schemaNameOf(Head(ts))) THEN bySchema
         ELSE addToSchema(bySchema, schemaNameOf(Head(ts)), Head(ts)))

\* line 400: the table name without a schema prefix
unprefixed(name) == IF includes(name, <<".">>) THEN splitChar(name, ".")[2] ELSE name

\* analyzeSchema, lines 384-450
analyzeSchema(schemaName, ts) ==
  schemaResult(schemaName,
    [i \in 1..Len(ts) |-> calculateCompliance(<<[ts[i] EXCEPT !.name = unprefixed(@)]>>)],
    [i \in 1..Len(ts) |-> ts[i].name])

InitSqlSchemas ==
  /\ multiInput \in SqlSchemaInputs
  /\ multiPc = "start"
  /\ tablesBySchema = <<>>
  /\ schemaIdx = 0
  /\ schemaResults = <<>>
  /\ totalTables = 0
  /\ totalScore = fraction(0, 1)
  /\ analysis = NoAnalysis
  /\ ddl = [shape |-> "sql"]
  /\ sqlContent = multiInput.sql
  /\ sqlPc = "start"
  /\ statements = <<>>
  /\ stmtIdx = 0
  /\ tables = <<>>
  /\ validation = NoValidation
  /\ DumpIdle
  /\ ScoreIdle
  /\ ResolveIdle
  /\ SplitIdle
  /\ CallIdle

\* analyzeSQLWithSchemas, lines 275-297, for a content that does not start
\* with PGDMP, once this.parser.parse(sqlContent) has returned, and
\* analyzeSchemas, lines 335-357
AnalyzeSchemas ==
  /\ multiPc = "start"
  /\ multiInput.entry = "sql"
  /\ sqlPc = "parsed"
  /\ ~startsWith(sqlContent, strPGDMP)
  /\ tablesBySchema' = groupParsed(tables, <<>>)
  /\ multiPc' = "schemas"
  /\ UNCHANGED <<multiInput, schemaIdx, schemaResults, totalTables, totalScore, analysis>>
  /\ UNCHANGED otherThanMulti

\* analyzeSchemas, lines 364-369: one schema of the loop
AnalyzeSchema ==
  /\ multiPc = "schemas"
  /\ multiInput.entry = "sql"
  /\ schemaIdx < Len(tablesBySchema)
  /\ schemaIdx' = schemaIdx + 1
  /\ addSchemaResult(analyzeSchema(tablesBySchema[schemaIdx + 1].schemaName,
                                   tablesBySchema[schemaIdx + 1].tables),
                     Len(tablesBySchema[schemaIdx + 1].tables))
  /\ UNCHANGED <<multiInput, multiPc, tablesBySchema, analysis>>
  /\ UNCHANGED otherThanMulti

NextSqlSchemas ==
  \/ SplitStatements
  \/ ParseStatement
  \/ ParseReturn
  \/ AnalyzeSchemas
  \/ AnalyzeSchema
  \/ ReturnAnalysis

SpecSqlSchemas == InitSqlSchemas /\ [][NextSqlSchemas]_vars

(***************************************************************************)
(* A DatabaseAnalyzer instance and a series of analyzeSQL calls on regular *)
(* SQL files.  JavaScript runs each synchronous call to its end, so the    *)
(* calls interleave as whole calls, in any order.                          *)
(***************************************************************************)
\* addRule, line 8: the key of a rule in this.rules
ruleKey(rule) == rule.normalForm \o "-" \o rule.name

\* this.rules after the constructor, lines 265-270 and 701-722
constructedRegistry == {ruleKey(rules[i]) : i \in 1..Len(rules)}

\* this.rules.values(): the rules of the registry in insertion order
registered(keys) == SelectSeq(rules, LAMBDA r : ruleKey(r) \in keys)

\* evaluateAllRules, lines 45-52, over this.rules.values()
RECURSIVE evaluateRegistered(_, _, _)
evaluateRegistered(rs, ts, acc) ==
  IF rs = <<>> THEN acc
  ELSE evaluateRegistered(Tail(rs), ts,
         IF evaluate(Head(rs), ts).threw THEN acc
         ELSE [acc EXCEPT ![Head(rs).normalForm] = @ \o evaluate(Head(rs), ts).violations])

\* the texts of the calls
CallTexts == {tx_CreateUsers, tx_CreateSalesOrders, tx_CreateInformationItems}

\* the most analyzeSQL calls on the instance
MaxCalls == 3

otherThanCalls == <<dumpVars, scoreVars, resolveVars, splitVars, multiVars>>

InitCalls ==
  /\ registry = constructedRegistry
  /\ calls = <<>>
  /\ SqlIdle
  /\ DumpIdle
  /\ ScoreIdle
  /\ ResolveIdle
  /\ SplitIdle
  /\ MultiIdle

\* analyzeSQL, lines 627-657, entered with a regular SQL file: the call of
\* this.parser.parse, whose locals start afresh
CallAnalyzeSQL ==
  /\ sqlPc = "idle"
  /\ Len(calls) < MaxCalls
  /\ \E text \in CallTexts :
       /\ ~startsWith(text, strPGDMP)
       /\ sqlContent' = text
  /\ sqlPc' = "start"
  /\ statements' = <<>>
  /\ stmtIdx' = 0
  /\ tables' = <<>>
  /\ UNCHANGED <<ddl, validation, registry, calls>>
  /\ UNCHANGED otherThanCalls

\* the rest of analyzeSQL with a rule that found a violation taken out of
\* this.rules
ReturnReportUnregistering ==
  /\ sqlPc = "parsed"
  /\ calls' = Append(calls, [sql |-> sqlContent,
                             report |-> complianceReport(
                               evaluateRegistered(registered(registry), tables, NoViolations))])
  /\ registry' = {ruleKey(rules[i]) :
                    i \in {k \in 1..Len(rules) : /\ ruleKey(rules[k]) \in registry
                                                  /\ evaluate(rules[k], tables).violations = <<>>}}
  /\ sqlPc' = "idle"
  /\ UNCHANGED <<ddl, sqlContent, statements, stmtIdx, tables, validation>>
  /\ UNCHANGED otherThanCalls

\* analyzeSQL, lines 659-665: calculateCompliance over this.rules, and the
\* report returned
ReturnReport ==
  /\ sqlPc = "parsed"
  /\ calls' = Append(calls, [sql |-> sqlContent,
                             report |-> complianceReport(
                               evaluateRegistered(registered(registry), tables, NoViolations))])
  /\ sqlPc' = "idle"
  /\ UNCHANGED <<ddl, sqlContent, statements, stmtIdx, tables, validation, registry>>
  /\ UNCHANGED otherThanCalls

NextCalls ==
  \/ CallAnalyzeSQL
  \/ SplitStatements
  \/ ParseStatement
  \/ ParseReturn
  \/ ReturnReport

SpecCalls == InitCalls /\ [][NextCalls]_vars

\* the loop of the actions computes parse(sqlContent)
ParseLoopIsParse == sqlPc \in {"parsed", "done"} => tables = parse(sqlContent).tables

(***************************************************************************)
(* Properties of parse and validateSQL.                                    *)
(***************************************************************************)
InSeq(x, s) == \E i \in 1..Len(s) : s[i] = x

\* the key columns a clause list declares, in the order of declaration
RECURSIVE DeclaredKey(_)
DeclaredKey(cs) ==
  IF cs = <<>> THEN <<>>
  ELSE (CASE Head(cs).kind = "column" ->
               IF Head(cs).inlinePk THEN <<Head(cs).name>> ELSE <<>>
          [] Head(cs).kind \in {"primary_key", "constraint_primary_key"} -> Head(cs).keyCols
          [] OTHER -> <<>>)
       \o DeclaredKey(Tail(cs))

\* the identifier as it is to be stored: verbatim when double-quoted,
\* lowercased otherwise
CanonicalName(id) == IF id.quoted THEN id.name ELSE toLowerCase(id.name)

ColumnClauseNames(cs) ==
  {CanonicalName(cs[i]) : i \in {j \in 1..Len(cs) : cs[j].kind = "column"}}

ParsedOk == sqlPc = "done" /\ ddl.shape = "ok"

\* C5: a composite primary key is stored in primaryKeys with its columns in
\* the declared order (inline PRIMARY KEY columns in column order, the
\* columns of a table-level PRIMARY KEY clause in the listed order)
C5_CompositeKeyOrder ==
  (ParsedOk /\ Len(DeclaredKey(ddl.clauses)) >= 2)
    => /\ Len(tables) = 1
       /\ tables[1].primaryKeys = DeclaredKey(ddl.clauses)

\* C6: a double-quoted table or column identifier is stored verbatim, and
\* an unquoted identifier is stored lowercased
C6_IdentifierCase ==
  ParsedOk
    => /\ Len(tables) = 1
       /\ tables[1].name = CanonicalName(ddl.table)
       /\ (\A k \in 1..Len(ddl.clauses) : ddl.clauses[k].kind = "column")
            => \A i \in 1..Len(tables[1].columns) :
                 tables[1].columns[i].name \in ColumnClauseNames(ddl.clauses)

\* C7 as stated: for every column c of a parsed table, c.primaryKey is true
\* exactly when c.name is in the table's primaryKeys
C7_FlagIffInPrimaryKeys ==
  sqlPc = "done"
    => \A t \in 1..Len(tables) : \A i \in 1..Len(tables[t].columns) :
         tables[t].columns[i].primaryKey
           <=> InSeq(tables[t].columns[i].name, tables[t].primaryKeys)

\* C7, amended: a column whose primaryKey flag is true is in primaryKeys and
\* was declared with an inline PRIMARY KEY modifier; the converse does not
\* hold, since a column named by a table-level or CONSTRAINT PRIMARY KEY
\* clause is in primaryKeys with the flag false
C7_FlagImpliesInPrimaryKeys ==
  sqlPc = "done"
    => \A t \in 1..Len(tables) : \A i \in 1..Len(tables[t].columns) :
         tables[t].columns[i].primaryKey
           => /\ InSeq(tables[t].columns[i].name, tables[t].primaryKeys)
              /\ \E k \in 1..Len(ddl.clauses) :
                   /\ ddl.clauses[k].kind = "column"
                   /\ ddl.clauses[k].inlinePk
                   /\ ddl.clauses[k].name = tables[t].columns[i].name

\* a parsed table with an inline key column, flagged and in primaryKeys,
\* whose primaryKeys also holds the columns of a table-level clause
C7_Witness ==
  /\ sqlPc = "done"
  /\ Len(tables) = 1
  /\ \E i \in 1..Len(tables[1].columns) :
       /\ tables[1].columns[i].primaryKey
       /\ InSeq(tables[1].columns[i].name, tables[1].primaryKeys)
  /\ Len(tables[1].primaryKeys) >= 2

\* C8: validateSQL of a CREATE TABLE with unbalanced parentheses or with no
\* column list is invalid, with an error that contains 'SQL parsing failed'
C8_MalformedRejected ==
  (sqlPc = "done" /\ ddl.shape \in {"unclosed", "nolist"})
    => /\ validation.isValid = FALSE
       /\ validation.errors # <<>>
       /\ validation.errors[1] = "SQL parsing failed"

HasCheckClause(cs) == \E i \in 1..Len(cs) : cs[i] = clAgeCheck

\* C9: validateSQL of SQL with a CHECK constraint or a CREATE TRIGGER
\* statement is invalid, with an error that contains 'Unsupported SQL
\* construct'
C9_UnsupportedRejected ==
  (sqlPc = "done" /\ (ddl.shape = "trigger" \/ (ddl.shape = "ok" /\ HasCheckClause(ddl.clauses))))
    => /\ validation.isValid = FALSE
       /\ validation.errors # <<>>
       /\ validation.errors[1] = "Unsupported SQL construct"

\* the column clause ends with the modifier UNIQUE
HasInlineUnique(c) == c.kind = "column" /\ endsWith(c.text, chSP \o md_UNIQUE)

\* the stored column was declared by a clause with an inline UNIQUE modifier
\* (names compared without regard to case)
DeclaredInlineUnique(col, cs) ==
  \E k \in 1..Len(cs) :
    /\ HasInlineUnique(cs[k])
    /\ toLowerCase(cs[k].name) = toLowerCase(col.name)

\* C20: for every column declared with an inline UNIQUE modifier, parse sets
\* the column's unique flag and appends the single-column group of the
\* column's name to the table's uniqueConstraints, the groups of two such
\* columns standing in the order of their declaration
C20_InlineUniqueRecorded ==
  (ParsedOk /\ Len(tables) = 1)
    => LET t == tables[1]
           marked == {i \in 1..Len(t.columns) :
                        DeclaredInlineUnique(t.columns[i], ddl.clauses)}
       IN /\ \A i \in marked :
                /\ t.columns[i].unique
                /\ InSeq(<<t.columns[i].name>>, t.uniqueConstraints)
          /\ \A i, j \in marked :
                i < j => \E p, q \in 1..Len(t.uniqueConstraints) :
                           /\ p < q
                           /\ t.uniqueConstraints[p] = <<t.columns[i].name>>
                           /\ t.uniqueConstraints[q] = <<t.columns[j].name>>

\* the name up to its first space: what a definition's first token holds
\* of a quoted name
firstWord(name) ==
  IF \E i \in 1..Len(name) : name[i] = " "
  THEN SubSeq(name, 1, (CHOOSE i \in 1..Len(name) :
                          name[i] = " " /\ \A k \in 1..(i - 1) : name[k] # " ") - 1)
  ELSE name

\* the entries of the table's columns that the column definition accounts
\* for (names compared without regard to case)
entriesOf(table, clause) ==
  {i \in 1..Len(table.columns) :
     toLowerCase(table.columns[i].name) = toLowerCase(firstWord(clause.name))}

\* C27: every clause of a CREATE TABLE body that is a column definition (two
\* tokens or more, not a PRIMARY KEY, FOREIGN KEY, UNIQUE or CONSTRAINT
\* table constraint) yields exactly one entry of the table's columns,
\* whatever the column's name
C27_NoColumnLost ==
  ParsedOk
    => /\ Len(tables) = 1
       /\ \A k \in 1..Len(ddl.clauses) :
            ddl.clauses[k].kind = "column"
              => Cardinality(entriesOf(tables[1], ddl.clauses[k])) = 1

(***************************************************************************)
(* Properties of parseDumpFile and of the two analysis paths.              *)
(***************************************************************************)
SameShape(c, p) ==
  /\ c.columns = p.columns
  /\ c.primaryKeys = p.primaryKeys
  /\ c.foreignKeys = p.foreignKeys
  /\ c.uniqueConstraints = p.uniqueConstraints

\* the extracted block holds exactly the text of a statement of the dump
WellFormedBlock(e) ==
  \E k \in 1..Len(dump.stmts) : e.createStatement = StatementText(dump.stmts[k])

\* C1: for every well-formed CREATE TABLE block of a dump, the canonical
\* table built from the ExtractedTable has the same columns, primaryKeys,
\* foreignKeys and uniqueConstraints as the table that parse makes of the
\* block's createStatement
C1_CanonicalEqualsParsed ==
  dumpPc = "analyzed"
    => \A i \in 1..Len(result.tables) :
         WellFormedBlock(result.tables[i])
           => LET parsed == parse(result.tables[i].createStatement).tables
              IN /\ Len(parsed) = 1
                 /\ SameShape(canonicalTables[i], parsed[1])

\* C10: a text dump made of k CREATE TABLE statements, each on one line or
\* on several, yields exactly k extracted tables in input order and no
\* error, each createStatement holding its own statement and nothing more
C10_EveryStatementExtracted ==
  (dumpPc = "done" /\ dump.format = "text" /\ ~dump.trailer /\ ~dump.unclosed)
    => /\ Len(result.tables) = Len(dump.stmts)
       /\ result.errors = <<>>
       /\ \A i \in 1..Len(result.tables) :
            result.tables[i].createStatement = StatementText(dump.stmts[i])

UnclosedErrors == SelectSeq(result.errors, LAMBDA e : e.msg = "Unclosed CREATE TABLE at end of file")

\* C11: when the dump ends inside an unclosed CREATE TABLE block,
\* parseDumpFile records one 'Unclosed CREATE TABLE' error, returns the
\* tables completed before the block unchanged and reports success, so that
\* analyzeDumpFile does not throw
C11_UnclosedIsRecoverable ==
  (dumpPc \in {"done", "canonical", "analyzed"} /\ dump.unclosed)
    => /\ Len(UnclosedErrors) = 1
       /\ Len(result.errors) = 1
       /\ Len(result.tables) = Len(dump.stmts) - 1
       /\ \A i \in 1..Len(result.tables) :
            result.tables[i].createStatement = StatementText(dump.stmts[i])
       /\ result.success
       /\ dumpPc = "analyzed" => ~legacy.threw

\* the CREATE TABLE line of the statement, up to its opening parenthesis
HeadLine(st) == strCreateTable \o chSP \o DumpNameText(st.table) \o tx_OpenParen

\* the schema and the table the statement names, lowercased
NamedSchema(st) == IF st.table.schema = <<>> THEN strPublic ELSE toLowerCase(st.table.schema[1])
NamedTable(st) == toLowerCase(st.table.name)

\* C29: every extracted table bears the schema and the table name of the
\* CREATE TABLE line that opens its createStatement: a block is not stored
\* under the name of an earlier block, and a CREATE TABLE line whose name
\* cannot be parsed does not give its text to another table
C29_NamedByOwnLine ==
  dumpPc = "done"
    => \A i \in 1..Len(result.tables) :
         \E k \in 1..Len(dump.stmts) :
           /\ startsWith(result.tables[i].createStatement, HeadLine(dump.stmts[k]))
           /\ toLowerCase(result.tables[i].tableName) = NamedTable(dump.stmts[k])
           /\ toLowerCase(result.tables[i].schema) = NamedSchema(dump.stmts[k])

(***************************************************************************)
(* Properties of calculateCompliance.                                      *)
(***************************************************************************)
rulesOf(nf) == SelectSeq(rules, LAMBDA r : r.normalForm = nf)

\* the rules of a normal form that produced at least one violation
firedRules(nf) ==
  SelectSeq(rulesOf(nf), LAMBDA r : ~evaluate(r, schema).threw /\ evaluate(r, schema).violations # <<>>)

\* every violation of the normal form is attributed to the rule that made it
AttributedToOwnRule(nf) ==
  \A i \in 1..Len(rulesOf(nf)) :
    LET vs == evaluate(rulesOf(nf)[i], schema).violations
    IN \A k \in 1..Len(vs) : findRuleByViolation(vs[k]) = <<rulesOf(nf)[i]>>

\* C2: the violated weight of a normal form is the sum of the weights of
\* the rules that fired, each counted once however many violations it
\* produced, and the score is computed from that sum
C2_WeightOncePerRule ==
  scorePc = "done"
    => \A nf \in NormalForms :
         AttributedToOwnRule(nf)
           => /\ report.compliance[nf].violatedWeight = sumWeights(firedRules(nf))
              /\ report.compliance[nf].score
                   = scoreOf(sumWeights(rulesOf(nf)), sumWeights(firedRules(nf)))

\* C4: a table with an empty primary-key list, whatever its name and
\* columns, has a 1NF score of at most ((0.75 - 0.40) / 0.75) * 100 = 46.67
C4_NoKeyScoreBound ==
  (scorePc = "done" /\ schema[1].primaryKeys = <<>>)
    => report.compliance["1NF"].score <= scoreOf(sumWeights(rulesOf("1NF")), weightPrimaryKey)

\* x rounded to the nearest multiple of ten, a half going up: the
\* thousandths of a percent rounded to hundredths
roundToTen(x) == ((x + 5) \div 10) * 10

\* C19: the overall score of a report is 0.5 * score(1NF) + 0.3 * score(2NF)
\* + 0.2 * score(3NF) rounded to two decimals, and every normal-form score
\* and the overall score lie in [0, 100]
C19_OverallIsRoundedWeightedSum ==
  scorePc = "done"
    => /\ report.overallScore * 10
            = roundToTen(report.compliance["1NF"].score * overallWeight1NF
                         + report.compliance["2NF"].score * overallWeight2NF
                         + report.compliance["3NF"].score * overallWeight3NF)
       /\ \A nf \in NormalForms : report.compliance[nf].score \in 0..scoreFull
       /\ report.overallScore \in 0..scoreFull

\* the violations of the report, of every normal form
reportedViolations ==
  report.compliance["1NF"].violations \o report.compliance["2NF"].violations
    \o report.compliance["3NF"].violations

\* C21: the violations a report holds and scores are the conflict-resolved
\* set: no table and column has both an ERROR and a WARNING violation, and
\* the weight deducted for a normal form is the weight of its violations
\* that survive resolveConflicts
C21_ScoredSetIsResolved ==
  scorePc = "done"
    => /\ \A i, j \in 1..Len(reportedViolations) :
            ~ /\ reportedViolations[i].severity = "ERROR"
              /\ reportedViolations[j].severity = "WARNING"
              /\ reportedViolations[i].column # <<>>
              /\ reportedViolations[i].table = reportedViolations[j].table
              /\ reportedViolations[i].column = reportedViolations[j].column
       /\ \A nf \in NormalForms :
            report.compliance[nf].violatedWeight
              = calculateWeightedViolations(resolveConflicts(reportedViolations), nf)

\* the position of No Transitive Dependencies in the rules
transitiveRuleIdx == CHOOSE i \in 1..Len(rules) : rules[i].name = "No Transitive Dependencies"

\* a determinant's name without its ending _id, _code, _type or _status
stemOf(name) ==
  IF \E i \in 1..4 : endsWith(name, keyPatterns[i])
  THEN LET i == CHOOSE k \in 1..4 : endsWith(name, keyPatterns[k])
       IN SubSeq(name, 1, Len(name) - Len(keyPatterns[i]))
  ELSE name

\* the non-key column has, among the other non-key columns of the table, a
\* determinant whose stem its own name holds
OverlapsDeterminant(table, column) ==
  \E i \in 1..Len(findTransitiveDependencyCandidates(column, getNonKeyColumns(table))) :
    LET stem == stemOf(toLowerCase(
                  findTransitiveDependencyCandidates(column, getNonKeyColumns(table))[i]))
    IN stem # <<>> /\ includes(toLowerCase(column.name), stem)

\* C22: once No Transitive Dependencies has been evaluated on a table with
\* a primary key, every non-key column whose name overlaps the stem of a
\* determinant among the other non-key columns has a 3NF WARNING of
\* confidence above 0.6
C22_TransitiveDependencyFlagged ==
  (scorePc \in {"rules", "done"} /\ ruleIdx > transitiveRuleIdx)
    => \A t \in 1..Len(schema) :
         Len(schema[t].primaryKeys) # 0
           => \A c \in 1..Len(getNonKeyColumns(schema[t])) :
                OverlapsDeterminant(schema[t], getNonKeyColumns(schema[t])[c])
                  => \E k \in 1..Len(violations["3NF"]) :
                       /\ violations["3NF"][k].table = schema[t].name
                       /\ violations["3NF"][k].column = <<getNonKeyColumns(schema[t])[c].name>>
                       /\ violations["3NF"][k].severity = "WARNING"
                       /\ violations["3NF"][k].confidence > 6

\* the position of No Partial Dependencies in the rules
partialRuleIdx == CHOOSE i \in 1..Len(rules) : rules[i].name = "No Partial Dependencies"

\* the violations of No Partial Dependencies collected so far for the table
partialReported(table) ==
  SelectSeq(violations["2NF"],
            LAMBDA v : v.table = table.name /\ endsWith(v.message, strMayHavePartial))

\* a column whose name holds 'description', in a table with a key part
\* whose name holds 'id'
DescriptionNextToId(table, column) ==
  /\ includes(toLowerCase(column.name), str_description)
  /\ \E i \in 1..Len(table.primaryKeys) : includes(toLowerCase(table.primaryKeys[i]), str_id)

\* C23: once No Partial Dependencies has been evaluated, a table whose
\* primary key has at most one column has no violation of the rule, and in
\* a table with a composite key every non-key column of confidence at
\* least 0.6, and every 'description' column next to a key part holding
\* 'id', has one
C23_PartialDependencyReported ==
  (scorePc \in {"rules", "done"} /\ ruleIdx > partialRuleIdx)
    => \A t \in 1..Len(schema) :
         /\ Len(schema[t].primaryKeys) <= 1 => partialReported(schema[t]) = <<>>
         /\ Len(schema[t].primaryKeys) > 1
              => \A c \in 1..Len(getNonKeyColumns(schema[t])) :
                   LET column == getNonKeyColumns(schema[t])[c]
                   IN (\/ assessPartialDependencyConfidence(column, schema[t]) >= 6
                       \/ DescriptionNextToId(schema[t], column))
                        => \E k \in 1..Len(partialReported(schema[t])) :
                             partialReported(schema[t])[k].column = <<column.name>>

\* the position of Full Functional Dependency in the rules
fullRuleIdx == CHOOSE i \in 1..Len(rules) : rules[i].name = "Full Functional Dependency"

\* the violations of Full Functional Dependency collected so far for the table
fullReported(table) ==
  SelectSeq(violations["2NF"],
            LAMBDA v : v.table = table.name /\ endsWith(v.message, strMayNotHaveFull))

\* the name holds total_, sum_, count_ or avg_, or ends with _total, _sum
\* or _count
NamedAsDerived(name) ==
  \/ \E p \in {<<"t","o","t","a","l","_">>, <<"s","u","m","_">>, <<"c","o","u","n","t","_">>,
                <<"a","v","g","_">>} : includes(toLowerCase(name), p)
  \/ \E p \in {<<"_","t","o","t","a","l">>, <<"_","s","u","m">>, <<"_","c","o","u","n","t">>} :
       endsWith(toLowerCase(name), p)

\* C24: once Full Functional Dependency has been evaluated on a table with
\* a primary key, every non-key column named as a total, sum, count or
\* average has a violation of the rule with confidence 0.7, and a column
\* that matches no derived pattern (confidence 0.3) has none
C24_DerivedColumnsReported ==
  (scorePc \in {"rules", "done"} /\ ruleIdx > fullRuleIdx)
    => \A t \in 1..Len(schema) :
         Len(schema[t].primaryKeys) # 0
           => \A c \in 1..Len(getNonKeyColumns(schema[t])) :
                LET column == getNonKeyColumns(schema[t])[c]
                    reported == SelectSeq(fullReported(schema[t]),
                                          LAMBDA v : v.column = <<column.name>>)
                IN /\ NamedAsDerived(column.name)
                        => reported # <<>> /\ reported[1].confidence = 7
                   /\ (~NamedAsDerived(column.name)
                         /\ assessFunctionalDependencyConfidence(column) = 3)
                        => reported = <<>>

\* the violation is the one of Primary Key Required, of the array check,
\* of the JSON check
IsNoKeyViolation(v) == endsWith(v.message, strHasNoPrimaryKey)
IsArrayViolation(v) == endsWith(v.message, strHasArrayType)
IsJsonViolation(v) == endsWith(v.message, strHasJsonType)

\* C25 as stated: every violation of Primary Key Required, of the array
\* check and of the JSON/JSONB check has confidence 1.0, and every ERROR
\* violation has confidence 1.0
C25_DeterministicConfidenceOne ==
  scorePc = "done"
    => \A i \in 1..Len(reportedViolations) :
         LET v == reportedViolations[i]
         IN /\ (IsNoKeyViolation(v) \/ IsArrayViolation(v) \/ IsJsonViolation(v))
                 => v.confidence = 10
            /\ v.severity = "ERROR" => v.confidence = 10

\* C25, amended: the violations of Primary Key Required and of the array
\* check are the ERROR violations and have confidence 1.0; the violation of
\* the JSON/JSONB check is a WARNING of confidence 0.8
C25_ErrorsHaveConfidenceOne ==
  scorePc = "done"
    => \A i \in 1..Len(reportedViolations) :
         LET v == reportedViolations[i]
         IN /\ (IsNoKeyViolation(v) \/ IsArrayViolation(v))
                 => v.severity = "ERROR" /\ v.confidence = 10
            /\ IsJsonViolation(v) => v.severity = "WARNING" /\ v.confidence = 8
            /\ v.severity = "ERROR"
                 => v.confidence = 10 /\ (IsNoKeyViolation(v) \/ IsArrayViolation(v))

\* a report that holds a violation of each of the three checks
C25_Witness ==
  /\ scorePc = "done"
  /\ \E i, j, k \in 1..Len(reportedViolations) :
       /\ IsNoKeyViolation(reportedViolations[i])
       /\ IsArrayViolation(reportedViolations[j])
       /\ IsJsonViolation(reportedViolations[k])

\* the weight of the rule times the number of violations it produced for
\* the schema, summed over the rules of the sequence
RECURSIVE producedWeight(_)
producedWeight(rs) ==
  IF rs = <<>> THEN 0
  ELSE (IF evaluate(Head(rs), schema).threw THEN 0
        ELSE Len(evaluate(Head(rs), schema).violations) * Head(rs).weight)
       + producedWeight(Tail(rs))

\* C26: whatever the names of the table and of its columns, the weight
\* deducted for a normal form is, violation by violation, the weight of the
\* rule that produced the violation
C26_ChargedForProducingRule ==
  scorePc = "done"
    => \A nf \in NormalForms :
         report.compliance[nf].violatedWeight = producedWeight(rulesOf(nf))

\* some rule's evaluate throws on the schema
SomeRuleThrows == \E i \in 1..Len(rules) : evaluate(rules[i], schema).threw

\* C14: when a rule's evaluate throws, calculateCompliance does not throw:
\* every rule is still evaluated, and the report it returns holds the
\* violations of every rule that did not throw
C14_ThrowingRuleIsIsolated ==
  SomeRuleThrows
    => /\ scorePc \in {"rules", "done"}
       /\ scorePc = "done"
            => /\ ruleIdx = Len(rules) + 1
               /\ \A i \in 1..Len(rules) :
                    LET ruleResult == evaluate(rules[i], schema)
                        reported == report.compliance[rules[i].normalForm].violations
                    IN ~ruleResult.threw
                         => \A k \in 1..Len(ruleResult.violations) :
                               InSeq(ruleResult.violations[k], reported)

\* a report returned although a rule threw, holding a violation of a rule
\* evaluated after the one that threw
C14_Witness ==
  /\ scorePc = "done"
  /\ SomeRuleThrows
  /\ \E i, j \in 1..Len(rules) :
       /\ i < j
       /\ evaluate(rules[i], schema).threw
       /\ evaluate(rules[j], schema).violations # <<>>
       /\ InSeq(evaluate(rules[j], schema).violations[1],
                report.compliance[rules[j].normalForm].violations)

(***************************************************************************)
(* Properties of resolveConflicts.                                         *)
(***************************************************************************)
occurrences(v, s) == Cardinality({i \in 1..Len(s) : s[i] = v})

\* the same violations the same number of times, in any order
SameViolations(s, t) ==
  /\ Len(s) = Len(t)
  /\ \A i \in 1..Len(s) : occurrences(s[i], s) = occurrences(s[i], t)

\* a WARNING for which the input holds an ERROR with the same table and the
\* same column (or both without a column)
Suppressed(v, input) ==
  /\ v.severity = "WARNING"
  /\ \E i \in 1..Len(input) :
       /\ input[i].severity = "ERROR"
       /\ input[i].table = v.table
       /\ input[i].column = v.column

Unsuppressed(input) == SelectSeq(input, LAMBDA v : ~Suppressed(v, input))

\* C3: resolveConflicts returns exactly the input violations minus the
\* WARNINGs for which the input holds an ERROR with the same table and the
\* same column: nothing else is removed, nothing is added or altered.
C3_OnlySuppressedRemoved ==
  resolvePc = "done" => SameViolations(resolvedViolations, Unsuppressed(resolveInput))

strNoCreateTable == "No CREATE TABLE statements found in the SQL file"

\* C13: statements that are not CREATE TABLE never make validateSQL fail and
\* never add a table: a script without CREATE TABLE is valid, without errors
\* and with the warning that no CREATE TABLE was found, and a script with n
\* CREATE TABLE statements of distinct names gives a schema of exactly those
\* n tables
C13_OtherStatementsIgnored ==
  (sqlPc = "done" /\ ddl.shape = "script")
    => LET created == createItems(ddl.items)
       IN /\ validation.isValid
          /\ validation.errors = <<>>
          /\ created = <<>>
               => \E i \in 1..Len(validation.warnings) :
                     validation.warnings[i].warning = strNoCreateTable
          /\ Len(tables) = Len(created)
          /\ \A i \in 1..Len(created) : tables[i].name = toLowerCase(created[i].name) \/ tables[i].name = created[i].name

\* the item of the script is a '--' comment line
IsLineComment(item) == item.kind = "comment" /\ startsWith(item.text, strDashDash)

\* C28: a CREATE TABLE statement on the line after a '--' comment line is
\* parsed into a table of its name: the comment neither makes the parser
\* skip the statement nor joins it to another one
C28_CommentBeforeStatement ==
  (sqlPc = "done" /\ ddl.shape = "script")
    => \A k \in 2..Len(ddl.items) :
         (ddl.items[k].kind = "create" /\ IsLineComment(ddl.items[k - 1]))
           => \E i \in 1..Len(tables) :
                toLowerCase(tables[i].name) = toLowerCase(ddl.items[k].name)

(***************************************************************************)
(* Properties of the multi-schema analysis.                                *)
(***************************************************************************)
\* the tables of the input that are in the schema
tablesOf(schemaName) == SelectSeq(multiInput.tables, LAMBDA t : t.schema = schemaName)

\* the overall score of the report of one table
tableScore(t) == calculateCompliance(<<buildCanonicalTable(t)>>).overallScore

RECURSIVE sumOver(_)
sumOver(ns) == IF ns = <<>> THEN 0 ELSE Head(ns) + sumOver(Tail(ns))

RECURSIVE fracSum(_)
fracSum(fs) == IF fs = <<>> THEN fraction(0, 1) ELSE fracPlus(Head(fs), fracSum(Tail(fs)))

\* q is the arithmetic mean of the numbers ns
IsMeanOf(q, ns) == ns # <<>> /\ q.num * Len(ns) = sumOver(ns) * q.den

\* q is the arithmetic mean of the fractions fs
IsMeanOfFractions(q, fs) == fs # <<>> /\ fracEq(fracOver(fracSum(fs), Len(fs)), q)

\* C15: each schema's overallScore is the arithmetic mean of the overall
\* scores of its tables, and the database overallScore is the unweighted
\* arithmetic mean of the schema overallScores, 0 when there is no schema
C15_UnweightedMeans ==
  (multiPc = "done" /\ multiInput.entry = "analyze")
    => /\ \A i \in 1..Len(analysis.schemas) :
            LET ts == tablesOf(analysis.schemas[i].schemaName)
            IN IsMeanOf(analysis.schemas[i].overallScore, [k \in 1..Len(ts) |-> tableScore(ts[k])])
       /\ IF analysis.schemas = <<>>
          THEN fracEq(analysis.overallScore, fraction(0, 1))
          ELSE IsMeanOfFractions(analysis.overallScore,
                 [i \in 1..Len(analysis.schemas) |-> analysis.schemas[i].overallScore])

\* two schemas of different sizes and different scores, where the mean over
\* the schemas differs from the mean over the tables
C15_Witness ==
  /\ multiPc = "done"
  /\ Len(analysis.schemas) = 2
  /\ analysis.schemas[1].tableCount # analysis.schemas[2].tableCount
  /\ ~fracEq(analysis.schemas[1].overallScore, analysis.schemas[2].overallScore)
  /\ ~IsMeanOf(analysis.overallScore,
               [k \in 1..Len(multiInput.tables) |-> tableScore(multiInput.tables[k])])

\* the scores of a schema result are those of its tables alone: the mean of
\* the table scores, and per normal form 100 minus the share of the tables
\* with a violation of it
ScoresFromTables(sr) ==
  LET ts == tablesOf(sr.schemaName)
      reports == [k \in 1..Len(ts) |-> calculateCompliance(<<buildCanonicalTable(ts[k])>>)]
  IN /\ IsMeanOf(sr.overallScore, [k \in 1..Len(ts) |-> reports[k].overallScore])
     /\ \A nf \in NormalForms :
          LET violated == Cardinality({k \in 1..Len(ts) :
                                         reports[k].compliance[nf].violations # <<>>})
          IN sr.normalization[nf].score.num * Len(ts)
               = (scoreFull * Len(ts) - scoreFull * violated) * sr.normalization[nf].score.den

\* C17: a schema's status is PERFECT exactly when it has no violation;
\* otherwise it is GOOD from 90 up, NEEDS_ATTENTION from 70 up to 90 and
\* CRITICAL below 70; and the scores are those of the tables whatever the
\* status
C17_StatusFromScore ==
  (multiPc = "done" /\ multiInput.entry = "analyze")
    => \A i \in 1..Len(analysis.schemas) :
         LET sr == analysis.schemas[i]
             atLeast90 == sr.overallScore.num >= 9000 * sr.overallScore.den
             atLeast70 == sr.overallScore.num >= 7000 * sr.overallScore.den
         IN /\ sr.status = "PERFECT" <=> sr.violations = <<>>
            /\ sr.violations # <<>>
                 => /\ sr.status = "GOOD" <=> atLeast90
                    /\ sr.status = "NEEDS_ATTENTION" <=> (atLeast70 /\ ~atLeast90)
                    /\ sr.status = "CRITICAL" <=> ~atLeast70
            /\ ScoresFromTables(sr)

\* a result with a schema of score exactly 90 and a violation, which is GOOD
C17_Witness ==
  /\ multiPc = "done"
  /\ \E i \in 1..Len(analysis.schemas) :
       /\ analysis.schemas[i].violations # <<>>
       /\ analysis.schemas[i].overallScore.num = 9000 * analysis.schemas[i].overallScore.den
       /\ analysis.schemas[i].status = "GOOD"

\* the tables the input declares, with their schemas
DeclaredTables ==
  IF multiInput.entry = "sql"
  THEN [i \in 1..Len(multiInput.items) |->
          [schema |-> multiInput.items[i].schema, name |-> multiInput.items[i].name]]
  ELSE [i \in 1..Len(multiInput.tables) |->
          [schema |-> multiInput.tables[i].schema, name |-> multiInput.tables[i].tableName]]

SystemSchemaNames == {nm_pg_catalog, nm_information_schema, <<"p","g","_","t","o","a","s","t">>}

UserTables == SelectSeq(DeclaredTables, LAMBDA d : d.schema \notin SystemSchemaNames)

\* C16: no schema of a result is pg_catalog, information_schema or pg_toast,
\* the tables of those schemas are counted neither in totalTables nor in
\* totalSchemas nor in a score (the counts do not exceed those of the tables
\* of the other schemas), and totalTables is the sum of the tableCount of
\* the schemas returned
C16_SystemSchemasExcluded ==
  multiPc = "done"
    => /\ \A i \in 1..Len(analysis.schemas) :
            analysis.schemas[i].schemaName \notin SystemSchemaNames
       /\ analysis.totalTables <= Len(UserTables)
       /\ analysis.totalSchemas <= Cardinality({UserTables[k].schema : k \in 1..Len(UserTables)})
       /\ analysis.totalTables
            = sumOver([i \in 1..Len(analysis.schemas) |-> analysis.schemas[i].tableCount])

\* the statement of the item names its table with a schema: s.t
IsQualified(item) == includes(item.text, item.schema \o <<".">> \o item.name)

\* C30: for every statement CREATE TABLE s.t (...) of the text, the parsed
\* schema holds a table named t whose schema is s, and, s not being a system
\* schema, the analysis of the text reports a schema s
C30_QualifiedNameKept ==
  (multiPc = "done" /\ multiInput.entry = "sql")
    => \A k \in 1..Len(multiInput.items) :
         IsQualified(multiInput.items[k])
           => /\ \E i \in 1..Len(tables) :
                   /\ toLowerCase(tables[i].name) = toLowerCase(multiInput.items[k].name)
                   /\ schemaNameOf(tables[i]) = multiInput.items[k].schema
              /\ multiInput.items[k].schema \notin SystemSchemaNames
                   => \E i \in 1..Len(analysis.schemas) :
                        analysis.schemas[i].schemaName = multiInput.items[k].schema

\* C18: the analyzeSQL calls of one instance on the same text return equal
\* reports (scores and violation lists), in any order and interleaved with
\* calls on other texts, and no call changes the rule registry that a later
\* call reads
C18_CallsAreIndependent ==
  /\ registry = constructedRegistry
  /\ \A i, j \in 1..Len(calls) :
       calls[i].sql = calls[j].sql => calls[i].report = calls[j].report

\* three calls, the first and the third on one text with violations, the
\* second on another text
C18_Witness ==
  /\ Len(calls) = 3
  /\ calls[1].sql = calls[3].sql
  /\ calls[2].sql # calls[1].sql
  /\ calls[1].report.summary.totalViolations > 0
  /\ calls[2].report # calls[1].report

(***************************************************************************)
(* Properties of splitStatements.                                          *)
(***************************************************************************)
\* the quote character that the first i characters of s leave open, or ""
RECURSIVE openQuote(_, _)
openQuote(s, i) ==
  IF i = 0 THEN ""
  ELSE LET before == openQuote(s, i - 1)
       IN IF before = "" THEN (IF s[i] \in {"'", "\""} THEN s[i] ELSE "")
          ELSE IF s[i] = before THEN "" ELSE before

\* the parenthesis depth after the first i characters of s: the parentheses
\* outside quoted literals, opened minus closed
depthAfter(s, i) ==
  Cardinality({j \in 1..i : s[j] = "(" /\ openQuote(s, j - 1) = ""})
  - Cardinality({j \in 1..i : s[j] = ")" /\ openQuote(s, j - 1) = ""})

\* a text up to the whitespace around its semicolons and its empty statements
RECURSIVE trimmedParts(_)
trimmedParts(parts) ==
  IF parts = <<>> THEN <<>>
  ELSE (IF trim(Head(parts)) = <<>> THEN <<>> ELSE <<trim(Head(parts))>>)
       \o trimmedParts(Tail(parts))

upToTrimming(text) == trimmedParts(splitChar(text, ";"))

\* a step of the scanner ends a statement only at a ";" at depth zero outside
\* a quoted literal, and a ";" inside quotes or parentheses stays in the
\* current statement
EndsOnlyAtTopLevel ==
  (splitPc = "scan" /\ splitIdx' = splitIdx + 1)
    => LET c == splitSql[splitIdx + 1]
           inside == openQuote(splitSql, splitIdx) # "" \/ depthAfter(splitSql, splitIdx) > 0
       IN /\ Len(scan'.out) > Len(scan.out)
               => c = ";" /\ openQuote(splitSql, splitIdx) = ""
                          /\ depthAfter(splitSql, splitIdx) = 0
          /\ (c = ";" /\ inside)
               => scan'.out = scan.out /\ scan'.cur = Append(scan.cur, ";")

RestoresInput ==
  splitPc = "done" => upToTrimming(join(splitOut, <<";">>)) = upToTrimming(splitSql)

\* C12: splitStatements ends a statement at a ";" only at parenthesis depth
\* zero and outside a quoted literal, a ";" inside quotes or parentheses
\* stays in its statement, and the returned statements joined with ";"
\* restore the input up to trimmed whitespace and empty statements
C12_SplitOnlyAtTopLevel == [][EndsOnlyAtTopLevel]_vars /\ []RestoresInput

\* a text split into two statements, one of them holding a ";"
C12_Witness ==
  /\ splitPc = "done"
  /\ Len(splitOut) = 2
  /\ \E i \in 1..2 : includes(splitOut[i], <<";">>)

====
